---- MODULE Spec2Model ----
(***************************************************************************)
(* Verification model of the medical document query tool                   *)
(* (src/backend/app.py and the services it uses): boundary finding,        *)
(* chunking, the upload pipeline, and the query / answer endpoints.        *)
(*                                                                         *)
(* Texts are sequences of one-character strings.  Positions are the        *)
(* 0-based positions of the Python code: position p lies between the p-th  *)
(* and the (p+1)-th character, and the character "at" p is text[p+1].      *)
(***************************************************************************)
EXTENDS Integers, Sequences, FiniteSets, TLC

VARIABLES
    \* ---- _find_best_split_point (one call) ----
    bf_text,        \* the text argument
    bf_target,      \* target_pos
    bf_search,      \* max_search
    bf_result,      \* the returned position
    bf_path,        \* which return statement produced it
    bf_pc,          \* "ready" | "returned"
    \* ---- chunking of one page ----
    ck_raw,         \* page["text"] as extracted
    ck_mode,        \* "structured" (build_chunks_from_structured) | "smart" (build_smart_chunks)
    ck_max,         \* max_chars
    ck_overlap,     \* overlap
    ck_text,        \* page_text
    ck_sections,    \* section_info: sequence of <<char_pos, header>>
    ck_sec,         \* index of the section the for loop is at (1-based)
    ck_i,           \* the while loops' i
    ck_prev_i,      \* i at the start of the last iteration run, -1 before it
    ck_chunks,      \* chunks
    ck_pc,          \* "input" | "sections" | "split" | "enhanced" | "smart" | "done"
    \* ---- process_single_file (one uploaded file) ----
    in_file,        \* the uploaded file: [pdf, readable, pages]
    in_os,          \* os_client is not None
    in_pc,          \* "ready" | "stored" | "extracted" | "chunked" | "embedded" |
                    \* "indexing" | "finish" | "returned"
    in_s3,          \* the object of the file is in the bucket
    in_pages,       \* extracted["pages"]: the text of each page
    in_chunks,      \* chunks
    in_batch,       \* number of bulk batches attempted
    in_index,       \* the records written to the index, in order
    in_failed,      \* number of bulk batches that raised
    in_attempts,    \* the os_client.bulk calls made: first line, lines, raised
    in_result,      \* the returned dictionary
    \* ---- one query request ----
    qy_hits,        \* the hits the index returns for the request
    qy_top_k,       \* top_k of the request
    qy_pc,          \* "ready" | "returned"
    qy_handler,     \* "answer" | "chat" | "service": the endpoint that ran
    qy_index,       \* "not called" | "ok" | "failed": the index calls of the request
    qy_gen_calls,   \* calls of the text generator
    qy_response,    \* the response
    \* ---- PDFEmbeddingService.process_pdf_content (one document) ----
    pe_file,        \* the document: what fitz and PyPDF2 do with it, its text
    pe_pc,          \* "ready" | "extracted" | "embedding" | "storing" |
                    \* "metadata" | "returned"
    pe_raw,         \* extracted_content['raw_text']
    pe_chunks,      \* chunks
    pe_k,           \* position of the running loop in its list
    pe_embedded,    \* embedded_chunks
    pe_index,       \* chunk_index of the chunks written to the index
    pe_failed_count,
                    \* failed_count of _store_embeddings_in_opensearch
    pe_meta,        \* the item of the document in the metadata table
    pe_result,      \* the returned dictionary
    \* ---- get_cached_embedding, called by several threads ----
    ec_cache,       \* _embedding_cache: cache_key -> embedding
    ec_lock,        \* the thread that holds _cache_lock, 0 when it is free
    ec_pc,          \* per thread: "idle" | "wait_lookup" | "lookup" | "encode" |
                    \* "wait_insert" | "insert" | "returned"
    ec_text,        \* per thread: the text argument
    ec_model,       \* per thread: model_type
    ec_ret,         \* per thread: the returned embedding
    \* ---- index creation, called by several processes ----
    ix_exists,      \* the index exists on the server
    ix_created,     \* number of times the server created the index
    ix_pc,          \* per process: "idle" | "checked" | "returned" | "raised"
    ix_fn,          \* per process: the function that was called
    ix_seen,        \* per process: what the exists check gave
    ix_outcome,     \* per process: how the call ended
    \* ---- process_files_parallel (one call) ----
    pf_n,           \* number of files submitted
    pf_state,       \* per file: "queued" | "running" | "finished" | "collected"
    pf_outcome,     \* per file: how process_single_file ended
    pf_results,     \* results
    pf_pc,          \* "idle" | "running" | "returned"
    \* ---- start of the application ----
    su_pc,          \* "idle" | "boot" | "up"
    su_os_client,   \* os_client: "None" | "client"
    su_schema,      \* create_index at startup: "not called" | "created" |
                    \* "exists" | "failed"
    su_ready,       \* init_opensearch printed "OpenSearch ready"
    \* ---- _calculate_importance_score ----
    is_text,        \* text
    is_type,        \* content_type
    is_score,       \* the score of the text, in tenths
    is_prev,        \* the score before the last keyword was added
    is_added,       \* number of keywords added
    is_pc           \* "idle" | "ready" | "scored"

bfVars == <<bf_text, bf_target, bf_search, bf_result, bf_path, bf_pc>>

ckVars == <<ck_raw, ck_mode, ck_max, ck_overlap, ck_text, ck_sections, ck_sec,
            ck_i, ck_prev_i, ck_chunks, ck_pc>>

inVars == <<in_file, in_os, in_pc, in_s3, in_pages, in_chunks, in_batch, in_index,
           in_failed, in_attempts, in_result>>
qyVars == <<qy_hits, qy_top_k, qy_pc, qy_handler, qy_index, qy_gen_calls, qy_response>>
peVars == <<pe_file, pe_pc, pe_raw, pe_chunks, pe_k, pe_embedded, pe_index,
            pe_failed_count, pe_meta, pe_result>>
ecVars == <<ec_cache, ec_lock, ec_pc, ec_text, ec_model, ec_ret>>
ixVars == <<ix_exists, ix_created, ix_pc, ix_fn, ix_seen, ix_outcome>>
pfVars == <<pf_n, pf_state, pf_outcome, pf_results, pf_pc>>
suVars == <<su_pc, su_os_client, su_schema, su_ready>>
isVars == <<is_text, is_type, is_score, is_prev, is_added, is_pc>>
vars == <<bfVars, ckVars, inVars, qyVars, peVars, ecVars, ixVars, pfVars,
          suVars, isVars>>

\* the variables of the other parts, for the actions of one part
bfRest == <<ckVars, inVars, qyVars, peVars, ecVars, ixVars, pfVars, suVars,
            isVars>>
ckRest == <<bfVars, inVars, qyVars, peVars, ecVars, ixVars, pfVars, suVars,
            isVars>>
inRest == <<bfVars, ckVars, qyVars, peVars, ecVars, ixVars, pfVars, suVars,
            isVars>>
qyRest == <<bfVars, ckVars, inVars, peVars, ecVars, ixVars, pfVars, suVars,
            isVars>>
peRest == <<bfVars, ckVars, inVars, qyVars, ecVars, ixVars, pfVars, suVars,
            isVars>>
ecRest == <<bfVars, ckVars, inVars, qyVars, peVars, ixVars, pfVars, suVars,
            isVars>>
ixRest == <<bfVars, ckVars, inVars, qyVars, peVars, ecVars, pfVars, suVars,
            isVars>>
pfRest == <<bfVars, ckVars, inVars, qyVars, peVars, ecVars, ixVars, suVars,
            isVars>>
suRest == <<bfVars, ckVars, inVars, qyVars, peVars, ecVars, ixVars, pfVars,
            isVars>>
isRest == <<bfVars, ckVars, inVars, qyVars, peVars, ecVars, ixVars, pfVars,
            suVars>>

(***************************************************************************)
(* Characters                                                              *)
(***************************************************************************)
NL == "\n"
CR == "\r"
TAB == "\t"

UpperSeq == <<"A","B","C","D","E","F","G","H","I","J","K","L","M",
              "N","O","P","Q","R","S","T","U","V","W","X","Y","Z">>
LowerSeq == <<"a","b","c","d","e","f","g","h","i","j","k","l","m",
              "n","o","p","q","r","s","t","u","v","w","x","y","z">>
UpperChars == {UpperSeq[i] : i \in 1..26}
LowerChars == {LowerSeq[i] : i \in 1..26}
Letters == UpperChars \cup LowerChars
Digits == {"0","1","2","3","4","5","6","7","8","9"}
\* \s of the re module, and str.strip()'s whitespace
Whitespace == {" ", NL, CR, TAB}
\* \w of the re module
WordChars == Letters \cup Digits \cup {"_"}

\* str.lower() on one character
LowerChar(c) ==
    IF c \in UpperChars
    THEN LowerSeq[CHOOSE i \in 1..26 : UpperSeq[i] = c]
    ELSE c

\* str.lower()
Lower(s) == [i \in 1..Len(s) |-> LowerChar(s[i])]

Min2(a, b) == IF a <= b THEN a ELSE b
Max2(a, b) == IF a >= b THEN a ELSE b
Abs(a) == IF a >= 0 THEN a ELSE 0 - a

\* text[p] of Python, 0 <= p < len(text)
At(s, p) == s[p + 1]

\* text[a:b] of Python for 0 <= a
Slice(s, a, b) == SubSeq(s, a + 1, Min2(b, Len(s)))

\* first position q >= p at which the run of characters of class S that
\* starts at p ends (q = p when the character at p is not in S)
RunEnd(s, p, S) ==
    LET stops == {q \in p..Len(s) : q = Len(s) \/ At(s, q) \notin S}
    IN CHOOSE q \in stops : \A r \in stops : q <= r

\* s[p:].startswith(w), comparing lower-cased (re.IGNORECASE on a literal)
StartsWithAtCI(s, p, w) ==
    /\ p + Len(w) <= Len(s)
    /\ \A i \in 1..Len(w) : LowerChar(s[p + i]) = w[i]

\* s[p:].startswith(w)
StartsWithAt(s, p, w) ==
    /\ p + Len(w) <= Len(s)
    /\ \A i \in 1..Len(w) : s[p + i] = w[i]

\* \b of the re module at position p of s
WordBoundary(s, p) ==
    LET before == p > 0 /\ At(s, p - 1) \in WordChars
        after  == p < Len(s) /\ At(s, p) \in WordChars
    IN before # after

(***************************************************************************)
(* The five medical_patterns of _is_medical_term_boundary, matched with    *)
(* re.IGNORECASE.  MatchEnd(pat, w, s) is the end of the match of pattern  *)
(* pat that starts at position s of w, or -1 when there is none.  Each     *)
(* pattern is greedy runs followed by a literal or a \b, so the leftmost   *)
(* match at s is decided without backtracking.                             *)
(***************************************************************************)
UnitMg == <<"m","g">>
UnitMl == <<"m","l">>
UnitMcg == <<"m","c","g">>

\* \d+\s*<unit>\b
DosageEnd(w, s, unit) ==
    IF s >= Len(w) \/ At(w, s) \notin Digits THEN -1
    ELSE LET d == RunEnd(w, s, Digits)
             u == RunEnd(w, d, Whitespace)
             e == u + Len(unit)
         IN IF StartsWithAtCI(w, u, unit) /\ WordBoundary(w, e) THEN e ELSE -1

\* \b\d+\.\d+\b
DecimalEnd(w, s) ==
    IF s >= Len(w) \/ At(w, s) \notin Digits \/ ~WordBoundary(w, s) THEN -1
    ELSE LET d == RunEnd(w, s, Digits)
         IN IF d < Len(w) /\ At(w, d) = "." /\ d + 1 < Len(w) /\ At(w, d + 1) \in Digits
            THEN LET e == RunEnd(w, d + 1, Digits)
                 IN IF WordBoundary(w, e) THEN e ELSE -1
            ELSE -1

\* \b[A-Z][a-z]+\s+[A-Z][a-z]+\b under re.IGNORECASE: both classes are
\* "any letter"
TwoWordsEnd(w, s) ==
    IF s >= Len(w) \/ At(w, s) \notin Letters \/ ~WordBoundary(w, s) THEN -1
    ELSE LET a == RunEnd(w, s, Letters)
             b == RunEnd(w, a, Whitespace)
             e == RunEnd(w, b, Letters)
         IN IF a - s >= 2 /\ b > a /\ e - b >= 2 /\ WordBoundary(w, e) THEN e ELSE -1

medical_patterns == <<"mg", "ml", "mcg", "decimal", "twowords">>

MatchEnd(pat, w, s) ==
    CASE pat = "mg" -> DosageEnd(w, s, UnitMg)
      [] pat = "ml" -> DosageEnd(w, s, UnitMl)
      [] pat = "mcg" -> DosageEnd(w, s, UnitMcg)
      [] pat = "decimal" -> DecimalEnd(w, s)
      [] pat = "twowords" -> TwoWordsEnd(w, s)

\* re.finditer(pattern, w): the leftmost non-overlapping matches, as the
\* set of <<start, end>> pairs, scanning from position s
RECURSIVE FindIter(_, _, _)
FindIter(pat, w, s) ==
    IF s >= Len(w) THEN {}
    ELSE LET e == MatchEnd(pat, w, s)
         IN IF e >= 0 THEN {<<s, e>>} \cup FindIter(pat, w, e)
            ELSE FindIter(pat, w, s + 1)

\* the radius of the window _is_medical_term_boundary scans
WindowRadius == 50

\* _is_medical_term_boundary(text, pos): TRUE when pos is safe to split at
IsMedicalTermBoundary(text, pos) ==
    IF pos >= Len(text) \/ pos <= 0 THEN TRUE
    ELSE LET window_start == Max2(0, pos - WindowRadius)
             window_end   == Min2(Len(text), pos + WindowRadius)
             window       == Slice(text, window_start, window_end)
         IN \A k \in 1..Len(medical_patterns) :
               \A m \in FindIter(medical_patterns[k], window, 0) :
                  ~(window_start + m[1] <= pos /\ pos <= window_start + m[2])

(***************************************************************************)
(* nltk.sent_tokenize.  The tokenizer is a library with a trained model;   *)
(* what the code relies on is its contract: a sentence may end only after  *)
(* a sentence-ending character that is followed by whitespace and a next   *)
(* token, the first sentence starts at 0, and the following sentences      *)
(* start at the next tokens.  Which candidates are breaks (abbreviations,  *)
(* initials, numbers) is the tokenizer's decision: any subset.             *)
(***************************************************************************)
SentenceEndChars == {".", "!", "?"}

\* the candidate breaks of s: positions p just after a sentence-ending
\* character, with whitespace at p and a next token after the whitespace
BreakCandidates(s) ==
    {p \in 1..Len(s) - 1 :
        /\ At(s, p - 1) \in SentenceEndChars
        /\ At(s, p) \in Whitespace
        /\ RunEnd(s, p, Whitespace) < Len(s)}

\* the possible results of sent_tokenize(s), each as its set of breaks
Tokenizations(s) == SUBSET BreakCandidates(s)

\* the smallest element of a non-empty set of integers
SetMin(S) == CHOOSE x \in S : \A y \in S : x <= y

\* the sentence_ends list of _find_best_split_point for the chosen breaks,
\* as a set.  The sentence that ends at break b starts at `start`; the loop
\* does pos += len(sent) and then skips the characters in ' \n\t' of text.
RECURSIVE SentenceEndsFrom(_, _, _, _)
SentenceEndsFrom(text, breaks, start, pos) ==
    IF breaks = {} THEN {}
    ELSE LET b == SetMin(breaks)
             p == RunEnd(text, pos + (b - start), {" ", NL, TAB})
         IN {p} \cup SentenceEndsFrom(text, breaks \ {b},
                                      RunEnd(text, b, Whitespace), p)

SentenceEnds(text, breaks) == SentenceEndsFrom(text, breaks, 0, 0)

\* min(sentence_ends, key=lambda x: abs(x - target_pos)): the list is in
\* increasing order and min keeps the first of equals
ClosestTo(ends, target_pos) ==
    CHOOSE x \in ends :
        \A y \in ends : \/ Abs(x - target_pos) < Abs(y - target_pos)
                        \/ (Abs(x - target_pos) = Abs(y - target_pos) /\ x <= y)

\* the first position of `accepted` the loop
\*   for offset in range(0, max_search): for pos in [target-offset, target+offset]
\* reaches, or -1: the smallest offset wins and, at equal offset, the
\* position before the target
FirstInScan(text, target_pos, max_search, accepted) ==
    LET ok == {p \in 0..Len(text) - 1 :
                  Abs(p - target_pos) < max_search /\ p \in accepted}
    IN IF ok = {} THEN -1
       ELSE CHOOSE p \in ok :
              \A q \in ok : \/ Abs(p - target_pos) < Abs(q - target_pos)
                            \/ (Abs(p - target_pos) = Abs(q - target_pos) /\ p <= q)

\* the positions of text that hold a character of S and are safe to split at
SafePositions(text, S) ==
    {p \in 0..Len(text) - 1 : At(text, p) \in S /\ IsMedicalTermBoundary(text, p)}

\* max_search: the default, and the radius the overlap snapping passes
DefaultMaxSearch == 200
OverlapSearch == 50

\* _find_best_split_point(text, target_pos, max_search) for the tokenizer's
\* choice `breaks` on text[:target_pos + max_search]; the result is the
\* pair <<position, return statement>>
FindBestSplitPoint(text, target_pos, max_search, breaks) ==
    IF target_pos >= Len(text) THEN <<Len(text), "end">>
    ELSE
      LET ends == SentenceEnds(text, breaks)
          best_end == ClosestTo(ends, target_pos)
          line == FirstInScan(text, target_pos, max_search,
                              SafePositions(text, {NL, CR}))
          space == FirstInScan(text, target_pos, max_search,
                               SafePositions(text, {" "}))
      IN IF /\ breaks # {}
            /\ Abs(best_end - target_pos) <= max_search
            /\ IsMedicalTermBoundary(text, best_end)
         THEN <<best_end, "sentence">>
         ELSE IF line >= 0 THEN <<line, "line">>
         ELSE IF space >= 0 THEN <<space, "space">>
         ELSE <<target_pos, "raw">>

(***************************************************************************)
(* Text utilities of the chunkers                                          *)
(***************************************************************************)
\* the largest element of a non-empty set of integers
SetMax(S) == CHOOSE x \in S : \A y \in S : x >= y

\* str.strip()
Strip(s) ==
    LET keep == {k \in 1..Len(s) : s[k] \notin Whitespace}
    IN IF keep = {} THEN <<>> ELSE SubSeq(s, SetMin(keep), SetMax(keep))

\* s.split(c)
RECURSIVE SplitOn(_, _)
SplitOn(s, c) ==
    LET at == {k \in 1..Len(s) : s[k] = c}
    IN IF at = {} THEN <<s>>
       ELSE <<SubSeq(s, 1, SetMin(at) - 1)>>
            \o SplitOn(SubSeq(s, SetMin(at) + 1, Len(s)), c)

\* sep.join(parts)
RECURSIVE JoinWith(_, _)
JoinWith(parts, sep) ==
    IF Len(parts) = 0 THEN <<>>
    ELSE IF Len(parts) = 1 THEN parts[1]
    ELSE parts[1] \o sep \o JoinWith(Tail(parts), sep)

\* s.count(c)
CountChar(s, c) == Cardinality({k \in 1..Len(s) : s[k] = c})

(***************************************************************************)
(* _preserve_list_structure                                                *)
(***************************************************************************)
\* the bullet character U+2022, one character of the text
BULLET == "(bullet)"
\* [•\-\*]
BulletChars == {BULLET, "-", "*"}
\* [.)\s]
ListSepChars == {".", ")"} \cup Whitespace

\* the replacement of one line
PreserveLine(line) ==
    LET stripped == Strip(line)
        lead == RunEnd(line, 0, Whitespace)          \* ^\s*
        d == RunEnd(line, lead, Digits)              \* \d+
    IN IF stripped = <<>> THEN line
       \* re.match(r'^\s*[•\-\*]\s+', line)
       ELSE IF /\ At(line, lead) \in BulletChars
               /\ lead + 1 < Len(line)
               /\ At(line, lead + 1) \in Whitespace
       THEN <<BULLET, " ">> \o Strip(Slice(stripped, 2, Len(stripped)))
       \* re.match(r'^\s*\d+[.)\s]', line), then r'^\s*(\d+)[.)\s]+(.*)$'
       ELSE IF d > lead /\ d < Len(line) /\ At(line, d) \in ListSepChars
       THEN Slice(line, lead, d) \o <<".", " ">>
            \o Strip(Slice(line, RunEnd(line, d, ListSepChars), Len(line)))
       \* re.match(r'^\s*[a-z][.)\s]', line), then r'^\s*([a-z])[.)\s]+(.*)$'
       ELSE IF /\ At(line, lead) \in LowerChars
               /\ lead + 1 < Len(line)
               /\ At(line, lead + 1) \in ListSepChars
       THEN <<At(line, lead), ")", " ">>
            \o Strip(Slice(line, RunEnd(line, lead + 1, ListSepChars), Len(line)))
       ELSE line

\* _preserve_list_structure(text)
PreserveListStructure(text) ==
    LET lines == SplitOn(text, NL)
    IN JoinWith([k \in 1..Len(lines) |-> PreserveLine(lines[k])], <<NL>>)

(***************************************************************************)
(* _detect_section_headers                                                 *)
(***************************************************************************)
HeaderMaxLen == 80
HeaderMaxSpaces == 8

\* re.match(r'^[A-Z][A-Z\s]{3,}:?$', line_stripped)
AllCapsHeader(ls) ==
    /\ Len(ls) >= 1
    /\ ls[1] \in UpperChars
    /\ LET r == RunEnd(ls, 1, UpperChars \cup Whitespace)
       IN /\ r - 1 >= 3
          /\ \/ r = Len(ls)
             \/ r = Len(ls) - 1 /\ At(ls, r) = ":"

\* re.match(r'^\d+\.\s+[A-Z]', line_stripped)
NumberedHeader(ls) ==
    LET d == RunEnd(ls, 0, Digits)
    IN /\ d > 0
       /\ d < Len(ls)
       /\ At(ls, d) = "."
       /\ LET w == RunEnd(ls, d + 1, Whitespace)
          IN w > d + 1 /\ w < Len(ls) /\ At(ls, w) \in UpperChars

\* the short-line rule: len < 80, fewer than 8 spaces, upper-case first character
ShortHeader(ls) ==
    /\ Len(ls) < HeaderMaxLen
    /\ CountChar(ls, " ") < HeaderMaxSpaces
    /\ Len(ls) >= 1
    /\ ls[1] \in UpperChars

IsHeaderLine(ls) == AllCapsHeader(ls) \/ NumberedHeader(ls) \/ ShortHeader(ls)

\* sum(len(lines[j]) + 1 for j in range(i)), i 0-based
RECURSIVE LineOffset(_, _)
LineOffset(lines, i) ==
    IF i = 0 THEN 0 ELSE LineOffset(lines, i - 1) + Len(lines[i]) + 1

\* the headers of lines k.. as a sequence of <<char_pos, line_stripped>>
RECURSIVE HeadersFrom(_, _)
HeadersFrom(lines, k) ==
    IF k > Len(lines) THEN <<>>
    ELSE LET ls == Strip(lines[k])
         IN (IF ls # <<>> /\ IsHeaderLine(ls)
             THEN <<<<LineOffset(lines, k - 1), ls>>>> ELSE <<>>)
            \o HeadersFrom(lines, k + 1)

\* _detect_section_headers(text)
DetectSectionHeaders(text) == HeadersFrom(SplitOn(text, NL), 1)

(***************************************************************************)
(* The chunking loops                                                      *)
(***************************************************************************)
\* "[Section: " and "]\n" of the context marker
SectionPrefix == <<"[", "S", "e", "c", "t", "i", "o", "n", ":", " ">>
SectionSuffix == <<"]", NL>>

\* a chunk dictionary; `body` is chunk_text, the text before the context
\* marker is added
Chunk(text, body, start, end, kind, header) ==
    [page |-> 1, text |-> text, body |-> body, start |-> start, end |-> end,
     chunk_type |-> kind, section_header |-> header]

\* a window end that is not cut at the end of the text
WindowEndUncut(text, i, max_chars, br) == i + max_chars

\* end_pos of one iteration of the while loop of _create_enhanced_chunks and
\* _split_large_section (br: the tokenizer's choice in _find_best_split_point)
WindowEnd(text, i, max_chars, br) ==
    IF i + max_chars >= Len(text) THEN Len(text)
    ELSE FindBestSplitPoint(text, i + max_chars, DefaultMaxSearch, br)[1]

\* chunk_text of that iteration
WindowText(text, i, max_chars, end_pos) ==
    IF i + max_chars >= Len(text) THEN Slice(text, i, Len(text))
    ELSE Strip(Slice(text, i, end_pos))

\* next_start = max(i + 1, end_pos - overlap)
OverlapStart(i, end_pos, overlap) == Max2(i + 1, end_pos - overlap)

\* the next i: next_start, snapped by _find_best_split_point(text, next_start, 50)
NextStart(text, i, end_pos, overlap, br) ==
    LET next_start == OverlapStart(i, end_pos, overlap)
    IN IF overlap > 0 /\ next_start < end_pos
       THEN FindBestSplitPoint(text, next_start, OverlapSearch, br)[1]
       ELSE next_start

\* the tokenizer's possible choices for the two calls
EndBreaks(text, i, max_chars) ==
    IF i + max_chars >= Len(text) THEN {{}}
    ELSE Tokenizations(Slice(text, 0, i + max_chars + DefaultMaxSearch))

SnapBreaks(text, i, end_pos, overlap) ==
    LET next_start == OverlapStart(i, end_pos, overlap)
    IN IF overlap > 0 /\ next_start < end_pos /\ next_start < Len(text)
       THEN Tokenizations(Slice(text, 0, next_start + OverlapSearch))
       ELSE {{}}

\* the contextual_text of _split_large_section
ContextualText(chunk_text, section_header, i) ==
    IF section_header # <<>> /\ i # 0
    THEN SectionPrefix \o section_header \o SectionSuffix \o chunk_text
    ELSE chunk_text

\* section i (1-based) of _create_structure_aware_chunks
SectionStart(sections, k) == sections[k][1]
SectionEnd(page_text, sections, k) ==
    IF k < Len(sections) THEN sections[k + 1][1] ELSE Len(page_text)
SectionText(page_text, sections, k) ==
    Strip(Slice(page_text, SectionStart(sections, k), SectionEnd(page_text, sections, k)))

\* build_smart_chunks drops the chunks of at most this many characters
MinFastChunk == 50

\* one iteration of the while loop of build_smart_chunks: end_pos, chunk_text,
\* whether the chunk is appended, and the next i
SmartEnd(page_text, i, max_chars) == Min2(i + max_chars, Len(page_text))
SmartText(page_text, i, max_chars) ==
    Strip(Slice(page_text, i, SmartEnd(page_text, i, max_chars)))
SmartKeeps(chunk_text) == chunk_text # <<>> /\ Len(chunk_text) > MinFastChunk
SmartNextStart(i, end_pos, overlap) ==
    IF overlap < end_pos - i THEN end_pos - overlap ELSE i + 1

(***************************************************************************)
(* Inputs of the boundary finder                                           *)
(***************************************************************************)
\* the characters the input texts are drawn from: a digit, the letters of
\* the unit mg, an upper-case letter, a space, a line break, a full stop
SplitAlphabet == {"5", "m", "g", "A", " ", NL, "."}

\* the longest text _find_best_split_point is called on
MaxSplitLen == 4

\* a search radius smaller than the texts, besides the two the code passes
SmallSearch == 2

\* three sentences, the first two separated by a carriage return and a line
\* break (a text with Windows line ends)
CrlfText == <<"A", ".", CR, NL, "m", "m", "m", ".", " ", "A">>

SplitTexts == UNION {[1..n -> SplitAlphabet] : n \in 0..MaxSplitLen} \cup {CrlfText}

SearchRadii == {SmallSearch, DefaultMaxSearch}

\* the boundary finder when no call is modelled
BfIdle ==
    /\ bf_text = <<>>
    /\ bf_target = 0
    /\ bf_search = DefaultMaxSearch
    /\ bf_result = 0
    /\ bf_path = "none"
    /\ bf_pc = "idle"

BfInit ==
    /\ bf_text \in SplitTexts
    /\ bf_target = 0
    /\ bf_search = DefaultMaxSearch
    /\ bf_result = 0
    /\ bf_path = "none"
    /\ bf_pc = "ready"

\* one call of _find_best_split_point
CallFindBestSplitPoint ==
    /\ bf_pc = "ready"
    /\ \E t \in 0..Len(bf_text), ms \in SearchRadii :
         \E breaks \in Tokenizations(Slice(bf_text, 0, t + ms)) :
            LET r == FindBestSplitPoint(bf_text, t, ms, breaks)
            IN /\ bf_target' = t
               /\ bf_search' = ms
               /\ bf_result' = r[1]
               /\ bf_path' = r[2]
    /\ bf_pc' = "returned"
    /\ UNCHANGED <<bf_text, bfRest>>

BfNext == CallFindBestSplitPoint

(***************************************************************************)
(* Chunking of one page: build_chunks_from_structured (structure-aware,    *)
(* with the enhanced fallback) and build_smart_chunks.  The page has text  *)
(* and no tables, so page_text is the one text part, stripped.             *)
(***************************************************************************)
\* the characters page texts are drawn from
ChunkAlphabet == {"A", "m", "5", " ", NL, "."}

\* the longest page text
MaxPageLen == 3

\* the loops are cut off after this many chunks
MaxChunks == 6

\* the defaults of build_chunks_from_structured and of build_smart_chunks
DefaultMaxChars == 1200
DefaultOverlap == 150
SmartMaxChars == 800
SmartOverlap == 100

\* a page whose second line is an indented header that opens a section of
\* three characters
IndentedHeaderPage == <<"m", NL, " ", "A", "A", "A">>

\* a page of one line without a header, with blanks two characters apart
SpacedWordsPage == <<"m", "m", " ", "m", " ", "m">>

\* page["text"] as extract_pdf_content leaves it: stripped
PageTexts ==
    {t \in UNION {[1..n -> ChunkAlphabet] : n \in 0..MaxPageLen} : Strip(t) = t}
    \cup {IndentedHeaderPage, SpacedWordsPage}

\* <<max_chars, overlap>>: small windows, and the defaults
StructuredParams == {<<2, 0>>, <<2, 1>>, <<3, 1>>, <<DefaultMaxChars, DefaultOverlap>>}
SmartParams == {<<2, 1>>, <<SmartMaxChars, SmartOverlap>>}

\* the chunker when no page is being chunked
CkIdle ==
    /\ ck_raw = <<>>
    /\ ck_mode = "none"
    /\ ck_max = DefaultMaxChars
    /\ ck_overlap = DefaultOverlap
    /\ ck_text = <<>>
    /\ ck_sections = <<>>
    /\ ck_sec = 0
    /\ ck_i = 0
    /\ ck_prev_i = -1
    /\ ck_chunks = <<>>
    /\ ck_pc = "idle"

CkInit ==
    /\ ck_raw \in PageTexts
    /\ ck_mode \in {"structured", "smart"}
    /\ \E p \in (IF ck_mode = "structured" THEN StructuredParams ELSE SmartParams) :
          ck_max = p[1] /\ ck_overlap = p[2]
    /\ ck_text = <<>>
    /\ ck_sections = <<>>
    /\ ck_sec = 0
    /\ ck_i = 0
    /\ ck_prev_i = -1
    /\ ck_chunks = <<>>
    /\ ck_pc = "input"

\* build_chunks_from_structured, one page, up to the dispatch in
\* _create_structure_aware_chunks
StartStructured ==
    /\ ck_pc = "input"
    /\ ck_mode = "structured"
    /\ LET processed_text == PreserveListStructure(ck_raw)
           section_info == IF ck_raw # <<>> THEN DetectSectionHeaders(processed_text)
                           ELSE <<>>
           page_text == IF ck_raw # <<>> THEN Strip(processed_text) ELSE <<>>
       IN /\ ck_text' = page_text
          /\ ck_sections' = section_info
          /\ ck_sec' = 1
          /\ ck_pc' = IF page_text = <<>> THEN "done"
                      ELSE IF section_info = <<>> THEN "enhanced"
                      ELSE "sections"
    /\ UNCHANGED <<ck_raw, ck_mode, ck_max, ck_overlap, ck_i, ck_prev_i, ck_chunks>>
    /\ UNCHANGED ckRest

\* one iteration of the for loop of _create_structure_aware_chunks
SectionStep ==
    /\ ck_pc = "sections"
    /\ IF ck_sec > Len(ck_sections)
       THEN /\ ck_pc' = "done"
            /\ UNCHANGED <<ck_sec, ck_chunks, ck_i, ck_prev_i>>
       ELSE LET section_text == SectionText(ck_text, ck_sections, ck_sec)
                section_header == ck_sections[ck_sec][2]
            IN IF section_text = <<>>
               THEN /\ ck_sec' = ck_sec + 1
                    /\ UNCHANGED <<ck_pc, ck_chunks, ck_i, ck_prev_i>>
               ELSE IF Len(section_text) <= ck_max
               THEN /\ ck_chunks' = Append(ck_chunks,
                          Chunk(section_text, section_text,
                                SectionStart(ck_sections, ck_sec),
                                SectionEnd(ck_text, ck_sections, ck_sec),
                                "section", section_header))
                    /\ ck_sec' = ck_sec + 1
                    /\ UNCHANGED <<ck_pc, ck_i, ck_prev_i>>
               ELSE /\ ck_pc' = "split"
                    /\ ck_i' = 0
                    /\ ck_prev_i' = -1
                    /\ UNCHANGED <<ck_sec, ck_chunks>>
    /\ UNCHANGED <<ck_raw, ck_mode, ck_max, ck_overlap, ck_text, ck_sections>>
    /\ UNCHANGED ckRest

\* one iteration of the while loop of _split_large_section
SplitStep ==
    /\ ck_pc = "split"
    /\ Len(ck_chunks) < MaxChunks
    /\ LET section_text == SectionText(ck_text, ck_sections, ck_sec)
           section_start == SectionStart(ck_sections, ck_sec)
           section_header == ck_sections[ck_sec][2]
       IN IF ck_i >= Len(section_text)
          THEN /\ ck_pc' = "sections"
               /\ ck_sec' = ck_sec + 1
               /\ UNCHANGED <<ck_i, ck_prev_i, ck_chunks>>
          ELSE \E br1 \in EndBreaks(section_text, ck_i, ck_max) :
                 LET end_pos == WindowEnd(section_text, ck_i, ck_max, br1)
                     chunk_text == WindowText(section_text, ck_i, ck_max, end_pos)
                 IN \E br2 \in SnapBreaks(section_text, ck_i, end_pos, ck_overlap) :
                      /\ ck_chunks' =
                           IF chunk_text # <<>>
                           THEN Append(ck_chunks,
                                  Chunk(ContextualText(chunk_text, section_header, ck_i),
                                        chunk_text, section_start + ck_i,
                                        section_start + end_pos,
                                        "section_part", section_header))
                           ELSE ck_chunks
                      /\ ck_prev_i' = ck_i
                      /\ IF end_pos >= Len(section_text)
                         THEN /\ ck_pc' = "sections"
                              /\ ck_sec' = ck_sec + 1
                              /\ UNCHANGED ck_i
                         ELSE /\ ck_i' = NextStart(section_text, ck_i, end_pos,
                                                   ck_overlap, br2)
                              /\ UNCHANGED <<ck_pc, ck_sec>>
    /\ UNCHANGED <<ck_raw, ck_mode, ck_max, ck_overlap, ck_text, ck_sections>>
    /\ UNCHANGED ckRest

\* one iteration of the while loop of _create_enhanced_chunks
EnhancedStep ==
    /\ ck_pc = "enhanced"
    /\ Len(ck_chunks) < MaxChunks
    /\ IF ck_i >= Len(ck_text)
       THEN /\ ck_pc' = "done"
            /\ UNCHANGED <<ck_i, ck_prev_i, ck_chunks>>
       ELSE \E br1 \in EndBreaks(ck_text, ck_i, ck_max) :
              LET end_pos == WindowEnd(ck_text, ck_i, ck_max, br1)
                  chunk_text == WindowText(ck_text, ck_i, ck_max, end_pos)
              IN \E br2 \in SnapBreaks(ck_text, ck_i, end_pos, ck_overlap) :
                   /\ ck_chunks' =
                        IF chunk_text # <<>>
                        THEN Append(ck_chunks,
                               Chunk(chunk_text, chunk_text, ck_i, end_pos,
                                     "enhanced", <<>>))
                        ELSE ck_chunks
                   /\ ck_prev_i' = ck_i
                   /\ IF end_pos >= Len(ck_text)
                      THEN /\ ck_pc' = "done"
                           /\ UNCHANGED ck_i
                      ELSE /\ ck_i' = NextStart(ck_text, ck_i, end_pos, ck_overlap, br2)
                           /\ UNCHANGED ck_pc
    /\ UNCHANGED <<ck_raw, ck_mode, ck_max, ck_overlap, ck_text, ck_sections, ck_sec>>
    /\ UNCHANGED ckRest

\* build_smart_chunks, one page, up to the while loop
StartSmart ==
    /\ ck_pc = "input"
    /\ ck_mode = "smart"
    /\ ck_text' = Strip(ck_raw)
    /\ ck_pc' = IF Strip(ck_raw) = <<>> THEN "done" ELSE "smart"
    /\ UNCHANGED <<ck_raw, ck_mode, ck_max, ck_overlap, ck_sections, ck_sec,
                   ck_i, ck_prev_i, ck_chunks>>
    /\ UNCHANGED ckRest

\* one iteration of the while loop of build_smart_chunks
SmartStep ==
    /\ ck_pc = "smart"
    /\ Len(ck_chunks) < MaxChunks
    /\ IF ck_i >= Len(ck_text)
       THEN /\ ck_pc' = "done"
            /\ UNCHANGED <<ck_i, ck_prev_i, ck_chunks>>
       ELSE LET end_pos == SmartEnd(ck_text, ck_i, ck_max)
                chunk_text == SmartText(ck_text, ck_i, ck_max)
            IN /\ ck_chunks' =
                    IF SmartKeeps(chunk_text)
                    THEN Append(ck_chunks,
                           Chunk(chunk_text, chunk_text, ck_i, end_pos, "fast", <<>>))
                    ELSE ck_chunks
               /\ ck_prev_i' = ck_i
               /\ IF end_pos >= Len(ck_text)
                  THEN /\ ck_pc' = "done"
                       /\ UNCHANGED ck_i
                  ELSE /\ ck_i' = SmartNextStart(ck_i, end_pos, ck_overlap)
                       /\ UNCHANGED ck_pc
    /\ UNCHANGED <<ck_raw, ck_mode, ck_max, ck_overlap, ck_text, ck_sections, ck_sec>>
    /\ UNCHANGED ckRest

CkNext ==
    \/ StartStructured
    \/ SectionStep
    \/ SplitStep
    \/ EnhancedStep
    \/ StartSmart
    \/ SmartStep

(***************************************************************************)
(* The upload pipeline: process_single_file with extract_pdf_content,      *)
(* build_smart_chunks, embed_chunks_optimized and bulk_index_chunks, for   *)
(* one uploaded file.                                                      *)
(***************************************************************************)
\* the chunks of one page that build_smart_chunks appends from window start i
RECURSIVE SmartPageChunks(_, _, _, _, _)
SmartPageChunks(page, page_text, i, max_chars, overlap) ==
    IF i >= Len(page_text) THEN <<>>
    ELSE LET end_pos == SmartEnd(page_text, i, max_chars)
             chunk_text == SmartText(page_text, i, max_chars)
             here == IF SmartKeeps(chunk_text)
                     THEN <<[page |-> page, text |-> chunk_text, chunk_type |-> "fast"]>>
                     ELSE <<>>
         IN IF end_pos >= Len(page_text) THEN here
            ELSE here \o SmartPageChunks(page, page_text,
                                         SmartNextStart(i, end_pos, overlap),
                                         max_chars, overlap)

\* build_smart_chunks over the pages k.. of the extracted document (pages
\* without tables: page_text is the stripped page text)
RECURSIVE BuildSmartChunks(_, _, _, _)
BuildSmartChunks(pages, k, max_chars, overlap) ==
    IF k > Len(pages) THEN <<>>
    ELSE SmartPageChunks(k, Strip(pages[k]), 0, max_chars, overlap)
         \o BuildSmartChunks(pages, k + 1, max_chars, overlap)

\* len(text.split()): the number of maximal runs of non-blank characters
WordCount(text) ==
    Cardinality({k \in 1..Len(text) :
        text[k] \notin Whitespace /\ (k = 1 \/ text[k - 1] \in Whitespace)})

\* the page text of the dosage scenario (47 characters)
MetforminText ==
    <<"M", "e", "t", "f", "o", "r", "m", "i", "n", " ", "5", "0",
    "0", "m", "g", " ", "t", "w", "i", "c", "e", " ", "d", "a",
    "i", "l", "y", " ", "f", "o", "r", " ", "t", "y", "p", "e",
    " ", "2", " ", "d", "i", "a", "b", "e", "t", "e", "s">>

\* the same sentence made longer than the 50 characters build_smart_chunks
\* requires (58 characters)
MetforminLongText ==
    <<"M", "e", "t", "f", "o", "r", "m", "i", "n", " ", "5", "0",
    "0", "m", "g", " ", "t", "w", "i", "c", "e", " ", "d", "a",
    "i", "l", "y", " ", "f", "o", "r", " ", "t", "y", "p", "e",
    " ", "2", " ", "d", "i", "a", "b", "e", "t", "e", "s", " ",
    "w", "i", "t", "h", " ", "m", "e", "a", "l", "s">>

\* a page with no text layer and empty OCR output
EmptyPage == <<>>

\* a page of n characters in words of five letters
FillerPage(n) == [k \in 1..n |-> IF k % 6 = 0 THEN " " ELSE "a"]

\* a page longer than one window of build_smart_chunks
LongPageLen == 900

\* batch_size of bulk_index_chunks
bulk_batch_size == 100

\* dimension of the vectors of all-MiniLM-L6-v2
EmbeddingDim == 384

\* the most pages of an enumerated document
MaxPages == 5

PageKinds == {EmptyPage, MetforminLongText}

\* the page texts of the uploaded documents, as page.get_text returns them:
\* every document of up to MaxPages pages of the two kinds, the one-page
\* document of the dosage scenario, a document with a page of several
\* windows, and one with more chunks than a bulk batch
Documents ==
    UNION {[1..n -> PageKinds] : n \in 1..MaxPages}
    \cup {<<MetforminText>>, <<FillerPage(LongPageLen)>>,
          [p \in 1..bulk_batch_size + 1 |-> MetforminLongText]}

\* an uploaded file: whether its bytes start with %PDF, whether fitz can
\* open it, and its pages
Files ==
    {[pdf |-> TRUE, readable |-> TRUE, pages |-> d] : d \in Documents}
    \cup {[pdf |-> FALSE, readable |-> FALSE, pages |-> <<>>],
          [pdf |-> TRUE, readable |-> FALSE, pages |-> <<>>]}

\* no result returned yet
NoResult == [pending |-> TRUE]

\* the two error results of process_single_file; the error text is the
\* pair of its fixed part and the part that is formatted in (the file name,
\* the exception, named here after the call that raised it)
NotPdfResult == [error |-> <<"is not a PDF", "file.pdf">>, success |-> FALSE]
FailedResult(e) == [error |-> <<"Processing failed", e>>, success |-> FALSE,
                    filename |-> "file.pdf"]

\* what OCR can return for a page without a text layer: nothing, or a text
OcrOutputs == {EmptyPage, MetforminLongText}

\* the pipeline when no file is being processed
InIdle ==
    /\ in_file = [pdf |-> FALSE, readable |-> FALSE, pages |-> <<>>]
    /\ in_os = FALSE
    /\ in_pc = "idle"
    /\ in_s3 = FALSE
    /\ in_pages = <<>>
    /\ in_chunks = <<>>
    /\ in_batch = 0
    /\ in_index = <<>>
    /\ in_failed = 0
    /\ in_attempts = <<>>
    /\ in_result = NoResult

\* process_single_file is called with a file; os_client is set or None
InInit ==
    /\ in_file \in Files
    /\ in_os \in BOOLEAN
    /\ in_pc = "ready"
    /\ in_s3 = FALSE
    /\ in_pages = <<>>
    /\ in_chunks = <<>>
    /\ in_batch = 0
    /\ in_index = <<>>
    /\ in_failed = 0
    /\ in_attempts = <<>>
    /\ in_result = NoResult

\* the except clause of process_single_file
ProcessingFailed(e) ==
    /\ in_result' = FailedResult(e)
    /\ in_pc' = "returned"

\* process_single_file up to s3.put_object: the %PDF check and the upload
ValidateAndStore ==
    /\ in_pc = "ready"
    /\ IF ~in_file.pdf
       THEN /\ in_result' = NotPdfResult
            /\ in_pc' = "returned"
            /\ UNCHANGED in_s3
       ELSE \E stored \in BOOLEAN :
              IF stored
              THEN /\ in_s3' = TRUE
                   /\ in_pc' = "stored"
                   /\ UNCHANGED in_result
              ELSE /\ ProcessingFailed("s3.put_object")
                   /\ UNCHANGED in_s3
    /\ UNCHANGED <<in_file, in_os, in_pages, in_chunks, in_batch, in_index, in_failed,
                   in_attempts>>
    /\ UNCHANGED inRest

\* extract_pdf_content: the stripped text of each page, the stripped OCR
\* output for a page without text; fitz or the OCR may raise
ExtractPdfContent ==
    /\ in_pc = "stored"
    /\ LET pages == in_file.pages
           image_only == {k \in 1..Len(pages) : Strip(pages[k]) = <<>>}
       IN \/ /\ in_file.readable
             /\ \E ocr \in [image_only -> OcrOutputs] :
                  in_pages' = [k \in 1..Len(pages) |->
                                 IF k \in image_only THEN Strip(ocr[k])
                                 ELSE Strip(pages[k])]
             /\ in_pc' = "extracted"
             /\ UNCHANGED in_result
          \/ /\ ~in_file.readable \/ image_only # {}
             /\ ProcessingFailed("extract_pdf_content")
             /\ UNCHANGED in_pages
    /\ UNCHANGED <<in_file, in_os, in_s3, in_chunks, in_batch, in_index, in_failed,
                   in_attempts>>
    /\ UNCHANGED inRest

\* chunks = build_smart_chunks(extracted)
BuildChunks ==
    /\ in_pc = "extracted"
    /\ in_chunks' = BuildSmartChunks(in_pages, 1, SmartMaxChars, SmartOverlap)
    /\ in_pc' = "chunked"
    /\ UNCHANGED <<in_file, in_os, in_s3, in_pages, in_batch, in_index, in_failed,
                   in_attempts, in_result>>
    /\ UNCHANGED inRest

\* chunks = embed_chunks_optimized(chunks, batch_size=32): every chunk gets
\* its vector, or model.encode raises
EmbedChunks ==
    /\ in_pc = "chunked"
    /\ IF in_chunks = <<>>
       THEN /\ in_pc' = "embedded"
            /\ UNCHANGED <<in_chunks, in_result>>
       ELSE \E encoded \in BOOLEAN :
              IF encoded
              THEN /\ in_chunks' = [k \in 1..Len(in_chunks) |->
                          [page |-> in_chunks[k].page, text |-> in_chunks[k].text,
                           chunk_type |-> in_chunks[k].chunk_type,
                           embedding |-> "vector", embedding_dim |-> EmbeddingDim]]
                   /\ in_pc' = "embedded"
                   /\ UNCHANGED in_result
              ELSE /\ ProcessingFailed("model.encode")
                   /\ UNCHANGED in_chunks
    /\ UNCHANGED <<in_file, in_os, in_s3, in_pages, in_batch, in_index, in_failed,
                   in_attempts>>
    /\ UNCHANGED inRest

\* the record bulk_index_chunks puts into the bulk body for a chunk
IndexDoc(chunk) ==
    [doc_id |-> "doc", page |-> chunk.page, text |-> chunk.text,
     chunk_type |-> chunk.chunk_type, content_type |-> chunk.content_type,
     chunk_metadata |-> chunk.chunk_metadata]

\* process_single_file from the document metadata to the start of the bulk
\* loop: with an index client and chunks, bulk_index_chunks overwrites
\* chunk_metadata and content_type of every chunk
PrepareBulk ==
    /\ in_pc = "embedded"
    /\ IF in_os /\ in_chunks # <<>>
       THEN /\ in_chunks' = [k \in 1..Len(in_chunks) |->
                   [page |-> in_chunks[k].page, text |-> in_chunks[k].text,
                    chunk_type |-> in_chunks[k].chunk_type,
                    embedding |-> in_chunks[k].embedding,
                    embedding_dim |-> in_chunks[k].embedding_dim,
                    chunk_metadata |-> [word_count |-> WordCount(in_chunks[k].text)],
                    content_type |-> "paragraph"]]
            /\ in_pc' = "indexing"
       ELSE /\ in_pc' = "finish"
            /\ UNCHANGED in_chunks
    /\ in_batch' = 0
    /\ UNCHANGED <<in_file, in_os, in_s3, in_pages, in_index, in_failed,
                   in_attempts, in_result>>
    /\ UNCHANGED inRest

\* bulk_body of bulk_index_chunks: for every chunk the index operation line
\* and then the record
BulkBody(chunks) ==
    [n \in 1..(2 * Len(chunks)) |->
        IF n % 2 = 1 THEN [index |-> "INDEX_NAME"]
        ELSE IndexDoc(chunks[n \div 2])]

\* a slice that holds batch_size lines, half the lines of batch_size chunks
BatchSliceHalf(body, i) == Slice(body, i, i + bulk_batch_size)

\* batch = bulk_body[i:i + batch_size * 2]
BatchSlice(body, i) == Slice(body, i, i + bulk_batch_size * 2)

\* one iteration of the batch loop of bulk_index_chunks, i running over
\* range(0, len(bulk_body), batch_size * 2): os_client.bulk writes the
\* batch, or raises and the batch is logged and skipped
BulkBatch ==
    /\ in_pc = "indexing"
    /\ LET body == BulkBody(in_chunks)
           i == in_batch * bulk_batch_size * 2
           batch == BatchSlice(body, i)
       IN /\ \E written \in BOOLEAN :
               /\ IF written
                  THEN /\ in_index' = in_index \o
                             [k \in 1..(Len(batch) \div 2) |-> batch[2 * k]]
                       /\ UNCHANGED in_failed
                  ELSE /\ in_failed' = in_failed + 1
                       /\ UNCHANGED in_index
               /\ in_attempts' = Append(in_attempts,
                      [first |-> i, lines |-> Len(batch), raised |-> ~written])
          /\ in_pc' = IF i + bulk_batch_size * 2 >= Len(body)
                      THEN "finish" ELSE "indexing"
    /\ in_batch' = in_batch + 1
    /\ UNCHANGED <<in_file, in_os, in_s3, in_pages, in_chunks, in_result>>
    /\ UNCHANGED inRest

\* the success result of process_single_file
ReturnResult ==
    /\ in_pc = "finish"
    /\ in_result' = [success |-> TRUE, document_id |-> "doc", filename |-> "file.pdf",
                     chunks_count |-> Len(in_chunks),
                     embedding_dim |-> IF in_chunks # <<>>
                                       THEN in_chunks[1].embedding_dim ELSE 0]
    /\ in_pc' = "returned"
    /\ UNCHANGED <<in_file, in_os, in_s3, in_pages, in_chunks, in_batch, in_index,
                   in_failed, in_attempts>>
    /\ UNCHANGED inRest

InNext ==
    \/ ValidateAndStore
    \/ ExtractPdfContent
    \/ BuildChunks
    \/ EmbedChunks
    \/ PrepareBulk
    \/ BulkBatch
    \/ ReturnResult

(***************************************************************************)
(* The query endpoints: answer_with_bedrock and chat_query_compat of       *)
(* app.py, and ChatService.process_query, for one request against the hits *)
(* the index returns.                                                      *)
(***************************************************************************)
\* the sentinel answer
Sentinel == "Insufficient evidence in the provided documents."

\* storage keys as make_safe_s3_key builds them, <prefix>/<date>_<time>_<id>_<name>
\* with short fields: r.pdf uploaded twice (documents a and b), WHO_g.pdf
KeyA == <<"m", "_", "d", "/", "1", "_", "2", "_", "a", "_", "r", ".", "p", "d", "f">>
KeyB == <<"m", "_", "d", "/", "1", "_", "3", "_", "b", "_", "r", ".", "p", "d", "f">>
KeyC == <<"m", "_", "d", "/", "1", "_", "2", "_", "c", "_", "W", "H", "O", "_", "g", ".", "p", "d", "f">>
StorageKeys == {KeyA, KeyB, KeyC}

\* the doc_id field of a record: <date>_<time>_<id> of its key
DocIdOf(s3_key) ==
    JoinWith(SubSeq(SplitOn(SplitOn(s3_key, "/")[2], "_"), 1, 3), <<"_">>)

\* the text field of a record: blank, or a text
HitTexts == {<<" ">>, <<"a">>}

\* the _score of a hit
HitScores == {1, 2}

\* the largest top_k of a request
MaxTopK == 3

HitPool ==
    {[s3_key |-> k, doc_id |-> DocIdOf(k), score |-> s, text |-> t, page |-> 1] :
        k \in StorageKeys, s \in HitScores, t \in HitTexts}

\* resp["hits"]["hits"] of search_similar: at most size = top_k hits, by
\* descending score
HitLists(top_k) ==
    {h \in UNION {[1..n -> HitPool] : n \in 0..top_k} :
        \A i \in 1..Len(h) - 1 : h[i].score >= h[i + 1].score}

\* filename of chat_query_compat: the key after its last "/", cut to the
\* first "_" part that starts with WHO, CDC, NIH or FDA or ends with .pdf,
\* else to what follows the first "_"
DefaultFilename == <<"d", "o", "c", "u", "m", "e", "n", "t", ".", "p", "d", "f">>
PdfSuffix == <<".", "p", "d", "f">>
DocPrefixes == {<<"W", "H", "O">>, <<"C", "D", "C">>, <<"N", "I", "H">>, <<"F", "D", "A">>}
EndsWith(s, w) == Len(s) >= Len(w) /\ SubSeq(s, Len(s) - Len(w) + 1, Len(s)) = w
CleanFilename(s3_key) ==
    IF s3_key = <<>> THEN DefaultFilename
    ELSE LET pieces == SplitOn(s3_key, "/")
             filename == pieces[Len(pieces)]
             parts == SplitOn(filename, "_")
             named == {i \in 1..Len(parts) :
                          \/ \E p \in DocPrefixes : StartsWithAt(parts[i], 0, p)
                          \/ EndsWith(parts[i], PdfSuffix)}
         IN IF Len(parts) = 1 THEN filename
            ELSE IF named # {}
            THEN JoinWith(SubSeq(parts, SetMin(named), Len(parts)), <<"_">>)
            ELSE JoinWith(Tail(parts), <<"_">>)

\* text[:1200] of a snippet
SnippetMax == 1200
Snippet(hit) == Slice(Strip(hit.text), 0, SnippetMax)

\* text[:300] + "..." of a source
ExcerptMax == 300
Excerpt(hit) == Slice(Strip(hit.text), 0, ExcerptMax) \o <<".", ".", ".">>

\* a variant of the test below that never takes the early return
NoSnippetsNever(snippets) == FALSE

\* `if not snippets`
NoSnippets(snippets) == snippets = <<>>

\* the hits (by index) answer_with_bedrock takes snippets and citations
\* from, scanning from hit k on
RECURSIVE AnswerCollect(_, _, _, _)
AnswerCollect(hits, k, top_k, picked) ==
    IF k > Len(hits) THEN picked
    ELSE IF Strip(hits[k].text) = <<>> THEN AnswerCollect(hits, k + 1, top_k, picked)
    ELSE LET next == Append(picked, k)
         IN IF Len(next) >= top_k THEN next
            ELSE AnswerCollect(hits, k + 1, top_k, next)

\* a variant of the test below that never finds a duplicate
SeenBeforeNever(filename, seen_files) == FALSE

\* `if filename in seen_files`
SeenBefore(filename, seen_files) == filename \in seen_files

\* the hits (by index) chat_query_compat takes snippets and ui_sources from
RECURSIVE ChatCollect(_, _, _, _, _)
ChatCollect(hits, k, top_k, seen_files, picked) ==
    IF k > Len(hits) THEN picked
    ELSE LET filename == CleanFilename(hits[k].s3_key)
         IN IF SeenBefore(filename, seen_files)
            THEN ChatCollect(hits, k + 1, top_k, seen_files, picked)
            ELSE IF Strip(hits[k].text) = <<>>
            THEN ChatCollect(hits, k + 1, top_k, seen_files \cup {filename}, picked)
            ELSE LET next == Append(picked, k)
                 IN IF Len(next) >= top_k THEN next
                    ELSE ChatCollect(hits, k + 1, top_k,
                                     seen_files \cup {filename}, next)

\* the labels "[1]", "[2]", ... of the citations
CitationLabels == <<"[1]", "[2]", "[3]", "[4]", "[5]", "[6]">>

\* citations taken from the first hits instead of the hits that gave snippets
CitationsByRank(hits, picked) ==
    [i \in 1..Len(picked) |->
        [doc_id |-> hits[i].doc_id, page |-> hits[i].page,
         s3_key |-> hits[i].s3_key, label |-> CitationLabels[i]]]

\* citations of answer_with_bedrock for the picked hits
Citations(hits, picked) ==
    [i \in 1..Len(picked) |->
        [doc_id |-> hits[picked[i]].doc_id, page |-> hits[picked[i]].page,
         s3_key |-> hits[picked[i]].s3_key, label |-> CitationLabels[i]]]

\* ui_sources of chat_query_compat for the picked hits
UiSources(hits, picked) ==
    [i \in 1..Len(picked) |->
        [documentId |-> hits[picked[i]].doc_id,
         filename |-> CleanFilename(hits[picked[i]].s3_key),
         relevanceScore |-> hits[picked[i]].score,
         excerpt |-> Excerpt(hits[picked[i]])]]

\* what the text generator can return as outputText, stripped
GeneratorOutputs == {"Grounded answer [1].", Sentinel, ""}

\* the return value of generate_answer for an output: `out or <sentinel>`
GenerateAnswer(out) == IF out = "" THEN Sentinel ELSE out

\* an error response of an endpoint
ErrorResponse(code, error) == [kind |-> "error", code |-> code, error |-> error]

\* conf = max(0.0, min(1.0, max_score / 10.0)), in tenths
ConfidenceTenths(sources) ==
    IF sources = <<>> THEN 0
    ELSE Max2(0, Min2(10, SetMax({sources[i].relevanceScore : i \in 1..Len(sources)})))

\* no response yet
NoResponse == [kind |-> "none"]

\* the endpoints when no request is modelled
QyIdle ==
    /\ qy_hits = <<>>
    /\ qy_top_k = 0
    /\ qy_pc = "idle"
    /\ qy_handler = "none"
    /\ qy_index = "not called"
    /\ qy_gen_calls = 0
    /\ qy_response = NoResponse

\* a request with its top_k, and the hits the index returns for it when the
\* search succeeds
QyInit ==
    /\ qy_top_k \in 1..MaxTopK
    /\ qy_hits \in HitLists(qy_top_k)
    /\ qy_pc = "ready"
    /\ qy_handler = "none"
    /\ qy_index = "not called"
    /\ qy_gen_calls = 0
    /\ qy_response = NoResponse

\* POST /api/answer.  given: the query is not blank; client: os_client is
\* set; reachable: embedding and search_similar return; out: what the
\* generator returns, or that it raises
AnswerWithBedrock ==
    /\ qy_pc = "ready"
    /\ \E given \in BOOLEAN, client \in BOOLEAN, reachable \in BOOLEAN,
          out \in GeneratorOutputs \cup {"raises"} :
         LET picked == AnswerCollect(qy_hits, 1, qy_top_k, <<>>)
             snippets == [i \in 1..Len(picked) |-> Snippet(qy_hits[picked[i]])]
         IN IF ~given
            THEN /\ qy_response' = ErrorResponse(400, "Missing query")
                 /\ qy_index' = "not called"
                 /\ qy_gen_calls' = 0
            ELSE IF ~client
            THEN /\ qy_response' = ErrorResponse(500, "OpenSearch client not initialized")
                 /\ qy_index' = "not called"
                 /\ qy_gen_calls' = 0
            ELSE IF ~reachable
            THEN /\ qy_response' = ErrorResponse(500, "Bedrock RAG failed")
                 /\ qy_index' = "failed"
                 /\ qy_gen_calls' = 0
            ELSE IF NoSnippets(snippets)
            THEN /\ qy_response' = [kind |-> "ok", code |-> 200, answer |-> Sentinel,
                                    citations |-> <<>>]
                 /\ qy_index' = "ok"
                 /\ qy_gen_calls' = 0
            ELSE /\ qy_response' =
                      IF out = "raises" THEN ErrorResponse(500, "Bedrock RAG failed")
                      ELSE [kind |-> "ok", code |-> 200, answer |-> GenerateAnswer(out),
                            citations |-> Citations(qy_hits, picked)]
                 /\ qy_index' = "ok"
                 /\ qy_gen_calls' = 1
    /\ qy_handler' = "answer"
    /\ qy_pc' = "returned"
    /\ UNCHANGED <<qy_hits, qy_top_k>>
    /\ UNCHANGED qyRest

\* POST /api/chat/query: the answer is formatted from the snippets, no
\* generator is called
ChatQueryCompat ==
    /\ qy_pc = "ready"
    /\ \E given \in BOOLEAN, client \in BOOLEAN, reachable \in BOOLEAN :
         LET picked == ChatCollect(qy_hits, 1, qy_top_k, {}, <<>>)
             snippets == [i \in 1..Len(picked) |-> Snippet(qy_hits[picked[i]])]
             ui_sources == UiSources(qy_hits, picked)
         IN IF ~given
            THEN /\ qy_response' = ErrorResponse(400, "Query is required")
                 /\ qy_index' = "not called"
            ELSE IF ~client
            THEN /\ qy_response' = ErrorResponse(503, "Search not ready")
                 /\ qy_index' = "not called"
            ELSE IF ~reachable
            THEN /\ qy_response' = ErrorResponse(500, "Chat processing failed")
                 /\ qy_index' = "failed"
            ELSE IF NoSnippets(snippets)
            THEN /\ qy_response' = [kind |-> "ok", code |-> 200, answer |-> Sentinel,
                                    sources |-> <<>>, confidence |-> 0]
                 /\ qy_index' = "ok"
            ELSE /\ qy_response' = [kind |-> "ok", code |-> 200,
                                    answer |-> "Formatted top snippets",
                                    answer_parts |-> SubSeq(snippets, 1, Min2(3, Len(snippets))),
                                    sources |-> ui_sources,
                                    confidence |-> ConfidenceTenths(ui_sources)]
                 /\ qy_index' = "ok"
    /\ qy_gen_calls' = 0
    /\ qy_handler' = "chat"
    /\ qy_pc' = "returned"
    /\ UNCHANGED <<qy_hits, qy_top_k>>
    /\ UNCHANGED qyRest

\* ChatService.process_query.  search_service, ai_service: the services were
\* constructed; counted, searched: the count and the search call of the
\* index return (get_index_stats and semantic_search swallow the failure);
\* embedded: create_embeddings returns a vector; generated: the model call
\* returns
ProcessQuery ==
    /\ qy_pc = "ready"
    /\ \E search_service \in BOOLEAN, ai_service \in BOOLEAN, counted \in BOOLEAN,
          searched \in BOOLEAN, embedded \in BOOLEAN, generated \in BOOLEAN,
          more \in {0, 1} :
         LET total_documents == IF counted THEN Len(qy_hits) + more ELSE 0
             relevant_docs == IF searched THEN qy_hits ELSE <<>>
         IN IF search_service /\ total_documents = 0
            THEN /\ qy_response' = [kind |-> "no documents", confidence |-> 10,
                                    answer |-> "No medical documents are currently available in the system.",
                                    sources |-> <<>>, relevantDocuments |-> 0]
                 /\ qy_index' = IF counted THEN "ok" ELSE "failed"
                 /\ qy_gen_calls' = 0
            ELSE IF ~ai_service \/ ~search_service
            THEN /\ qy_response' = [kind |-> "unavailable", confidence |-> 0,
                                    answer |-> "I apologize, but the AI services are currently unavailable.",
                                    sources |-> <<>>, relevantDocuments |-> 0]
                 /\ qy_index' = IF search_service THEN "ok" ELSE "not called"
                 /\ qy_gen_calls' = 0
            ELSE /\ qy_response' =
                      [kind |-> "generated",
                       answer |-> IF generated THEN "Generated medical response"
                                  ELSE "I apologize, but I encountered an error processing your request.",
                       relevantDocuments |-> Len(relevant_docs),
                       searchMethod |-> IF embedded THEN "semantic" ELSE "text"]
                 /\ qy_index' = IF searched THEN "ok" ELSE "failed"
                 /\ qy_gen_calls' = 1
    /\ qy_handler' = "service"
    /\ qy_pc' = "returned"
    /\ UNCHANGED <<qy_hits, qy_top_k>>
    /\ UNCHANGED qyRest

QyNext ==
    \/ AnswerWithBedrock
    \/ ChatQueryCompat
    \/ ProcessQuery

(***************************************************************************)
(* PDFEmbeddingService (services/document/pdf_embedding_service.py)        *)
(***************************************************************************)
\* self.chunk_size, self.chunk_overlap, self.max_chunks_per_doc
chunk_size == 1000
chunk_overlap == 200
max_chunks_per_doc == 50

\* chunks of fewer characters are skipped by _create_text_chunks
MinChunkChars == 50

\* re.sub(r'[S]+', c, s): every maximal run of characters of S becomes c
CollapseRuns(s, S, c) ==
    LET marked == [k \in 1..Len(s) |->
                     IF s[k] \notin S THEN s[k]
                     ELSE IF k > 1 /\ s[k - 1] \in S THEN "" ELSE c]
    IN SelectSeq(marked, LAMBDA x : x # "")

PageMarkerHead == <<"-", "-", "-", " ", "P", "a", "g", "e", " ">>
PageMarkerTail == <<" ", "-", "-", "-">>

\* the end of the match of r'--- Page \d+ ---' that starts at p, or -1
PageMarkerEnd(s, p) ==
    IF StartsWithAt(s, p, PageMarkerHead) /\ p + Len(PageMarkerHead) < Len(s)
    THEN LET d == p + Len(PageMarkerHead)
             q == RunEnd(s, d, Digits)
         IN IF q > d /\ StartsWithAt(s, q, PageMarkerTail)
            THEN q + Len(PageMarkerTail) ELSE -1
    ELSE -1

\* re.sub(r'--- Page \d+ ---', '', s)
RECURSIVE RemovePageMarkers(_)
RemovePageMarkers(s) ==
    LET starts == {p \in 0..(Len(s) - 1) : PageMarkerEnd(s, p) >= 0}
    IN IF starts = {} THEN s
       ELSE LET p == SetMin(starts)
            IN SubSeq(s, 1, p)
               \o RemovePageMarkers(SubSeq(s, PageMarkerEnd(s, p) + 1, Len(s)))

\* _clean_text_for_chunking
CleanTextForChunking(text) ==
    Strip(CollapseRuns(RemovePageMarkers(CollapseRuns(text, Whitespace, " ")),
                       {NL}, NL))

SentenceTerminators == {".", "!", "?"}

\* the list comprehension of _split_into_sentences over the pieces
RECURSIVE StripNonEmpty(_)
StripNonEmpty(pieces) ==
    IF pieces = <<>> THEN <<>>
    ELSE IF Strip(Head(pieces)) = <<>> THEN StripNonEmpty(Tail(pieces))
    ELSE <<Strip(Head(pieces))>> \o StripNonEmpty(Tail(pieces))

\* _split_into_sentences: re.split(r'[.!?]+', text), stripped, non-empty
SplitIntoSentences(text) ==
    StripNonEmpty(SplitOn(CollapseRuns(text, SentenceTerminators, "."), "."))

\* _get_overlap_text
GetOverlapText(chunk) ==
    IF Len(chunk) <= chunk_overlap THEN chunk
    ELSE LET overlap == SubSeq(chunk, Len(chunk) - chunk_overlap + 1, Len(chunk))
             spaces == {k \in 1..Len(overlap) : overlap[k] = " "}
         IN IF spaces # {} /\ SetMin(spaces) - 1 > 0
            THEN Strip(SubSeq(overlap, SetMin(spaces), Len(overlap)))
            ELSE overlap

\* the loop of _split_text_into_chunks from sentence k on, and the last chunk
RECURSIVE SplitLoop(_, _, _, _, _)
SplitLoop(sentences, k, current_chunk, current_length, chunks) ==
    IF k > Len(sentences)
    THEN IF Strip(current_chunk) # <<>>
         THEN Append(chunks, Strip(current_chunk)) ELSE chunks
    ELSE LET sentence == sentences[k]
         IN IF current_length + Len(sentence) > chunk_size /\ current_chunk # <<>>
            THEN LET next == GetOverlapText(current_chunk) \o <<" ">> \o sentence
                 IN SplitLoop(sentences, k + 1, next, Len(next),
                              Append(chunks, Strip(current_chunk)))
            ELSE SplitLoop(sentences, k + 1, current_chunk \o <<" ">> \o sentence,
                           current_length + Len(sentence) + 1, chunks)

\* _split_text_into_chunks
SplitTextIntoChunks(text) == SplitLoop(SplitIntoSentences(text), 1, <<>>, 0, <<>>)

\* the loop of _create_text_chunks over text_chunks[k..], k counted from 1:
\* short chunks are skipped, the loop breaks at max_chunks_per_doc chunks
RECURSIVE ChunkObjects(_, _, _)
ChunkObjects(text_chunks, k, chunks) ==
    IF k > Len(text_chunks) \/ Len(chunks) >= max_chunks_per_doc THEN chunks
    ELSE IF Len(Strip(text_chunks[k])) < MinChunkChars
    THEN ChunkObjects(text_chunks, k + 1, chunks)
    ELSE ChunkObjects(text_chunks, k + 1,
             Append(chunks, [chunk_index |-> k - 1, text |-> text_chunks[k]]))

\* _create_text_chunks
CreateTextChunks(raw_text) ==
    IF raw_text = <<>> THEN <<>>
    ELSE ChunkObjects(SplitTextIntoChunks(CleanTextForChunking(raw_text)), 1, <<>>)

\* a sentence of n characters in words of six letters
PeSentence(n) == [k \in 1..n |-> IF k % 7 = 0 THEN " " ELSE "a"]

\* the sentence lengths of the documents: shorter than the smallest chunk,
\* long enough for a chunk, and more than half of chunk_size
PeSentenceLens == {10, 60, 600}
MaxSentences == 3

\* the text of a document whose sentences have the given lengths
RECURSIVE PeText(_)
PeText(lens) ==
    IF lens = <<>> THEN <<>>
    ELSE PeSentence(Head(lens)) \o <<".", NL>> \o PeText(Tail(lens))

\* a text that carries a page marker line
PeMarkedText ==
    <<"-", "-", "-", " ", "P", "a", "g", "e", " ", "1", " ", "-", "-", "-", NL>>
    \o PeText(<<60>>)

PeTexts ==
    {PeText(lens) : lens \in UNION {[1..n -> PeSentenceLens] : n \in 0..MaxSentences}}
    \cup {PeMarkedText}

\* a PDF as the service sees it: fitz is importable and opens the file
\* ("ok"), raises on it ("raises") or is not installed ("missing"); whether
\* PyPDF2 can read the bytes; whether the temporary file can be written
PeFiles ==
    {[fitz |-> f[1], pypdf2 |-> f[2], tmp |-> f[3], text |-> x] :
        f \in {<<"ok", FALSE, TRUE>>, <<"ok", FALSE, FALSE>>,
                <<"raises", FALSE, TRUE>>, <<"missing", TRUE, TRUE>>,
                <<"missing", FALSE, TRUE>>},
        x \in PeTexts}

PeNoResult == [status |-> "pending"]
PeNoMeta == [processing_status |-> "none"]

\* the service when no document is being processed
PeIdle ==
    /\ pe_file = [fitz |-> "ok", pypdf2 |-> FALSE, tmp |-> FALSE, text |-> <<>>]
    /\ pe_pc = "idle"
    /\ pe_raw = <<>>
    /\ pe_chunks = <<>>
    /\ pe_k = 0
    /\ pe_embedded = <<>>
    /\ pe_index = <<>>
    /\ pe_failed_count = 0
    /\ pe_meta = PeNoMeta
    /\ pe_result = PeNoResult

\* process_pdf_content is called with the bytes of a document
PeInit ==
    /\ pe_file \in PeFiles
    /\ pe_pc = "ready"
    /\ pe_raw = <<>>
    /\ pe_chunks = <<>>
    /\ pe_k = 0
    /\ pe_embedded = <<>>
    /\ pe_index = <<>>
    /\ pe_failed_count = 0
    /\ pe_meta = PeNoMeta
    /\ pe_result = PeNoResult

\* _fallback_pdf_extraction: the text PyPDF2 reads, page by page with a
\* line break after each, or '' when reading raises (as it does on the
\* None that _extract_pdf passes)
FallbackPdfExtraction(file, has_content) ==
    IF has_content /\ file.pypdf2 THEN file.text \o <<NL>> ELSE <<>>

\* _extract_pdf_from_bytes: nothing is opened and read when fitz raises
ExtractionFails(file) ==
    \/ file.fitz = "raises"
    \/ file.fitz = "missing" /\ ~file.pypdf2

\* _extract_pdf_from_bytes / _extract_pdf: raw_text of the extracted content
ExtractPdfFromBytes(file) ==
    IF file.fitz = "missing" THEN FallbackPdfExtraction(file, TRUE)
    ELSE IF file.fitz = "ok" THEN file.text
    ELSE FallbackPdfExtraction(file, FALSE)

\* step 1 of process_pdf_content; writing the temporary file may raise,
\* which the except clause of process_pdf_content turns into the result
PeExtract ==
    /\ pe_pc = "ready"
    /\ IF pe_file.fitz # "missing" /\ ~pe_file.tmp
       THEN /\ pe_result' = [status |-> "failed", error |-> "temp_file.write"]
            /\ pe_pc' = "returned"
            /\ UNCHANGED pe_raw
       ELSE /\ pe_raw' = ExtractPdfFromBytes(pe_file)
            /\ pe_pc' = "extracted"
            /\ UNCHANGED pe_result
    /\ UNCHANGED <<pe_file, pe_chunks, pe_k, pe_embedded, pe_index,
                   pe_failed_count, pe_meta>>
    /\ UNCHANGED peRest

\* step 2 of process_pdf_content: chunks = _create_text_chunks(...)
PeCreateChunks ==
    /\ pe_pc = "extracted"
    /\ pe_chunks' = CreateTextChunks(pe_raw)
    /\ pe_k' = 1
    /\ pe_pc' = IF pe_chunks' = <<>> THEN "metadata" ELSE "embedding"
    /\ UNCHANGED <<pe_file, pe_raw, pe_embedded, pe_index, pe_failed_count,
                   pe_meta, pe_result>>
    /\ UNCHANGED peRest

\* one iteration of the loop of _generate_embeddings_for_chunks:
\* create_embeddings returns the vector, or [] after an error of the model
\* call, and the chunk is then left out of embedded_chunks
PeEmbedChunk ==
    /\ pe_pc = "embedding"
    /\ \E embedding \in {"vector", "empty"} :
          pe_embedded' = IF embedding = "vector"
                         THEN Append(pe_embedded, pe_chunks[pe_k])
                         ELSE pe_embedded
    /\ IF pe_k < Len(pe_chunks)
       THEN /\ pe_k' = pe_k + 1
            /\ UNCHANGED pe_pc
       ELSE /\ pe_k' = 1
            /\ pe_pc' = IF pe_embedded' = <<>> THEN "metadata" ELSE "storing"
    /\ UNCHANGED <<pe_file, pe_raw, pe_chunks, pe_index, pe_failed_count,
                   pe_meta, pe_result>>
    /\ UNCHANGED peRest

\* one iteration of the loop of _store_embeddings_in_opensearch:
\* index_document returns True, or False (also after an exception)
PeIndexChunk ==
    /\ pe_pc = "storing"
    /\ \E success \in BOOLEAN :
          IF success
          THEN /\ pe_index' = Append(pe_index, pe_embedded[pe_k].chunk_index)
               /\ UNCHANGED pe_failed_count
          ELSE /\ pe_failed_count' = pe_failed_count + 1
               /\ UNCHANGED pe_index
    /\ IF pe_k < Len(pe_embedded)
       THEN /\ pe_k' = pe_k + 1
            /\ UNCHANGED pe_pc
       ELSE /\ pe_k' = 1
            /\ pe_pc' = "metadata"
    /\ UNCHANGED <<pe_file, pe_raw, pe_chunks, pe_embedded, pe_meta, pe_result>>
    /\ UNCHANGED peRest

\* step 5 and the return of process_pdf_content: _store_document_metadata
\* puts the item with processing_status 'completed' (or fails, which is
\* caught and only logged), and the success result is returned
PeStoreMetadataAndReturn ==
    /\ pe_pc = "metadata"
    /\ \E put \in BOOLEAN :
          pe_meta' = IF put
                     THEN [processing_status |-> "completed",
                           text_length |-> Len(pe_raw),
                           searchable |-> Len(pe_index) > 0]
                     ELSE pe_meta
    /\ pe_result' = [status |-> "success",
                     chunks_created |-> Len(pe_chunks),
                     chunks_embedded |-> Len(pe_embedded),
                     chunks_indexed |-> Len(pe_index),
                     text_length |-> Len(pe_raw)]
    /\ pe_pc' = "returned"
    /\ UNCHANGED <<pe_file, pe_raw, pe_chunks, pe_k, pe_embedded, pe_index,
                   pe_failed_count>>
    /\ UNCHANGED peRest

PeNext ==
    \/ PeExtract
    \/ PeCreateChunks
    \/ PeEmbedChunk
    \/ PeIndexChunk
    \/ PeStoreMetadataAndReturn

(***************************************************************************)
(* get_cached_embedding and its cache (app.py)                             *)
(***************************************************************************)
\* the threads that call get_cached_embedding
EcThreads == {1, 2}

\* hash(text) has a fixed width, so distinct texts can have the same hash;
\* texts are numbered and the width is scaled down to HashBits
HashBits == 1
EcTexts == 0..(2 ^ HashBits)
Hash(text) == text % (2 ^ HashBits)

ModelTypes == {"general", "medical"}

\* the size above which an insert clears the cache (1000 in the source,
\* scaled down)
CacheLimit == 1

\* cache_key = f"{model_type}:{hash(text)}"
CacheKey(text, model_type) == <<model_type, Hash(text)>>

\* model.encode([text], normalize_embeddings=True)[0].tolist(): both model
\* types load the same model, and the vector is a function of the text
Encode(text, model_type) == <<"vector", text>>

NoEmbedding == <<"none">>

\* _cache_lock can be taken when nobody holds it, whoever asks
LockIgnored == TRUE

\* _cache_lock can be taken when nobody holds it
LockFree == ec_lock = 0

\* len(_embedding_cache) > 1000
CacheFull(cache) == Cardinality(DOMAIN cache) > CacheLimit

\* the cache when no call has been made
EcIdle ==
    /\ ec_cache = <<>>
    /\ ec_lock = 0
    /\ ec_pc = [t \in EcThreads |-> "idle"]
    /\ ec_text = [t \in EcThreads |-> 0]
    /\ ec_model = [t \in EcThreads |-> "general"]
    /\ ec_ret = [t \in EcThreads |-> NoEmbedding]

\* the module is loaded: an empty cache, a free lock, threads about to call
EcInit == EcIdle

\* a thread calls get_cached_embedding(text, model_type)
EcCall(t) ==
    /\ ec_pc[t] = "idle"
    /\ \E text \in EcTexts, model_type \in ModelTypes :
          /\ ec_text' = [ec_text EXCEPT ![t] = text]
          /\ ec_model' = [ec_model EXCEPT ![t] = model_type]
    /\ ec_pc' = [ec_pc EXCEPT ![t] = "wait_lookup"]
    /\ ec_ret' = [ec_ret EXCEPT ![t] = NoEmbedding]
    /\ UNCHANGED <<ec_cache, ec_lock>>
    /\ UNCHANGED ecRest

\* entering a `with _cache_lock:` block
EcAcquire(t) ==
    /\ ec_pc[t] \in {"wait_lookup", "wait_insert"}
    /\ LockFree
    /\ ec_lock' = t
    /\ ec_pc' = [ec_pc EXCEPT ![t] = IF ec_pc[t] = "wait_lookup"
                                      THEN "lookup" ELSE "insert"]
    /\ UNCHANGED <<ec_cache, ec_text, ec_model, ec_ret>>
    /\ UNCHANGED ecRest

\* the first with block: a hit returns the cached value; leaving the block
\* releases the lock
EcLookup(t) ==
    /\ ec_pc[t] = "lookup"
    /\ LET cache_key == CacheKey(ec_text[t], ec_model[t])
       IN IF cache_key \in DOMAIN ec_cache
          THEN /\ ec_ret' = [ec_ret EXCEPT ![t] = ec_cache[cache_key]]
               /\ ec_pc' = [ec_pc EXCEPT ![t] = "returned"]
          ELSE /\ ec_pc' = [ec_pc EXCEPT ![t] = "encode"]
               /\ UNCHANGED ec_ret
    /\ ec_lock' = 0
    /\ UNCHANGED <<ec_cache, ec_text, ec_model>>
    /\ UNCHANGED ecRest

\* embedding = model.encode(...), outside the lock
EcEncode(t) ==
    /\ ec_pc[t] = "encode"
    /\ ec_ret' = [ec_ret EXCEPT ![t] = Encode(ec_text[t], ec_model[t])]
    /\ ec_pc' = [ec_pc EXCEPT ![t] = "wait_insert"]
    /\ UNCHANGED <<ec_cache, ec_lock, ec_text, ec_model>>
    /\ UNCHANGED ecRest

\* the second with block and the return: a full cache is cleared, the
\* embedding is stored under the key, the lock is released
EcInsert(t) ==
    /\ ec_pc[t] = "insert"
    /\ LET cache_key == CacheKey(ec_text[t], ec_model[t])
           kept == IF CacheFull(ec_cache) THEN <<>> ELSE ec_cache
       IN ec_cache' = [k \in DOMAIN kept \cup {cache_key} |->
                          IF k = cache_key THEN ec_ret[t] ELSE kept[k]]
    /\ ec_lock' = 0
    /\ ec_pc' = [ec_pc EXCEPT ![t] = "returned"]
    /\ UNCHANGED <<ec_text, ec_model, ec_ret>>
    /\ UNCHANGED ecRest

\* the caller has the value and the thread is free for its next call
EcDone(t) ==
    /\ ec_pc[t] = "returned"
    /\ ec_pc' = [ec_pc EXCEPT ![t] = "idle"]
    /\ UNCHANGED <<ec_cache, ec_lock, ec_text, ec_model, ec_ret>>
    /\ UNCHANGED ecRest

EcCallSome == \E t \in EcThreads : EcCall(t)
EcAcquireSome == \E t \in EcThreads : EcAcquire(t)
EcLookupSome == \E t \in EcThreads : EcLookup(t)
EcEncodeSome == \E t \in EcThreads : EcEncode(t)
EcInsertSome == \E t \in EcThreads : EcInsert(t)
EcDoneSome == \E t \in EcThreads : EcDone(t)

EcNext ==
    \/ EcCallSome
    \/ EcAcquireSome
    \/ EcLookupSome
    \/ EcEncodeSome
    \/ EcInsertSome
    \/ EcDoneSome

(***************************************************************************)
(* Index creation: create_index (services/opensearch_service.py) and       *)
(* OpenSearchService._create_index_if_not_exists (services/storage)        *)
(***************************************************************************)
\* the processes that create the index at their start
IxProcs == {1, 2, 3}

IxFunctions == {"create_index", "_create_index_if_not_exists"}

\* what os_client.indices.exists can give: the answer, or an exception
ExistsAnswers(exists) == {IF exists THEN "present" ELSE "absent", "check failed"}

\* what os_client.indices.create can give when the index is absent: it is
\* created and acknowledged, it is created and the answer is lost, or the
\* request fails; when the index is there the server refuses the duplicate
CreateAnswers(exists) ==
    IF exists THEN {"resource_already_exists_exception"}
    ELSE {"acknowledged", "created, answer lost", "request failed"}

\* the answers of indices.create after which the index is there
CreatedBy(answer) == answer \in {"acknowledged", "created, answer lost"}

\* an except clause that lets the exception out to the caller
Reraise(fn) == "raised"

\* the except clauses of both functions print the exception and fall
\* through to the end of the function
ExceptClause(fn) == "returned"

\* whether the function goes on to indices.create after the exists check:
\* create_index only when the check answered absent (an exception of the
\* check leaves its try block), _create_index_if_not_exists also when the
\* check raised (exists = False)
GoesOnToCreate(fn, seen) ==
    \/ seen = "absent"
    \/ fn = "_create_index_if_not_exists" /\ seen = "check failed"

\* no call is running; the index may be there from an earlier run
IxIdle ==
    /\ ix_exists = FALSE
    /\ ix_created = 0
    /\ ix_pc = [p \in IxProcs |-> "idle"]
    /\ ix_fn = [p \in IxProcs |-> "create_index"]
    /\ ix_seen = [p \in IxProcs |-> "none"]
    /\ ix_outcome = [p \in IxProcs |-> "none"]

IxInit ==
    /\ ix_exists \in BOOLEAN
    /\ ix_created = 0
    /\ ix_pc = [p \in IxProcs |-> "idle"]
    /\ ix_fn \in [IxProcs -> IxFunctions]
    /\ ix_seen = [p \in IxProcs |-> "none"]
    /\ ix_outcome = [p \in IxProcs |-> "none"]

\* the call up to the answer of indices.exists
IxCheck(p) ==
    /\ ix_pc[p] = "idle"
    /\ \E fn \in IxFunctions, seen \in ExistsAnswers(ix_exists) :
          /\ ix_fn' = [ix_fn EXCEPT ![p] = fn]
          /\ ix_seen' = [ix_seen EXCEPT ![p] = seen]
          /\ IF GoesOnToCreate(fn, seen)
             THEN /\ ix_pc' = [ix_pc EXCEPT ![p] = "checked"]
                  /\ ix_outcome' = [ix_outcome EXCEPT ![p] = "none"]
             ELSE IF seen = "present"
             THEN /\ ix_pc' = [ix_pc EXCEPT ![p] = "returned"]
                  /\ ix_outcome' = [ix_outcome EXCEPT ![p] = "index exists"]
             ELSE /\ ix_pc' = [ix_pc EXCEPT ![p] = ExceptClause(fn)]
                  /\ ix_outcome' = [ix_outcome EXCEPT ![p] = "check failed"]
    /\ UNCHANGED <<ix_exists, ix_created>>
    /\ UNCHANGED ixRest

\* indices.create and the rest of the call
IxCreate(p) ==
    /\ ix_pc[p] = "checked"
    /\ \E answer \in CreateAnswers(ix_exists) :
          /\ ix_exists' = (ix_exists \/ CreatedBy(answer))
          /\ ix_created' = IF CreatedBy(answer) THEN ix_created + 1 ELSE ix_created
          /\ ix_outcome' = [ix_outcome EXCEPT ![p] = answer]
          /\ ix_pc' = [ix_pc EXCEPT ![p] =
                IF answer = "acknowledged" THEN "returned" ELSE ExceptClause(ix_fn[p])]
    /\ UNCHANGED <<ix_fn, ix_seen>>
    /\ UNCHANGED ixRest

\* the caller goes on and may call again
IxAgain(p) ==
    /\ ix_pc[p] = "returned"
    /\ ix_pc' = [ix_pc EXCEPT ![p] = "idle"]
    /\ ix_seen' = [ix_seen EXCEPT ![p] = "none"]
    /\ ix_outcome' = [ix_outcome EXCEPT ![p] = "none"]
    /\ UNCHANGED <<ix_exists, ix_created, ix_fn>>
    /\ UNCHANGED ixRest

IxCheckSome == \E p \in IxProcs : IxCheck(p)
IxCreateSome == \E p \in IxProcs : IxCreate(p)
IxAgainSome == \E p \in IxProcs : IxAgain(p)

IxNext ==
    \/ IxCheckSome
    \/ IxCreateSome
    \/ IxAgainSome

(***************************************************************************)
(* process_files_parallel (app.py)                                         *)
(***************************************************************************)
\* max_workers of process_files_parallel
max_workers == 3

\* the largest number of files of one call
MaxFiles == 4

\* file.filename of the i-th file; names repeat within a call
FilenameOf(i) == IF i % 2 = 1 THEN "a.pdf" ELSE "b.pdf"

\* how a call of process_single_file can end: with its success result, with
\* one of its error results, or with an exception
SingleFileOutcomes == {"success", "failed", "raised"}

\* the files of the call
PfFiles == 1..pf_n

\* the futures whose worker is running
PfRunning == {i \in PfFiles : pf_state[i] = "running"}

\* the pool takes a file when a worker is free, whatever the number running
WorkerFreeAlways == TRUE

\* ThreadPoolExecutor(max_workers): a worker is free
WorkerFree == Cardinality(PfRunning) < max_workers

\* the body of the as_completed loop for future i: the records appended
RecordOf(i, outcome) ==
    IF outcome = "raised"
    THEN <<[future |-> i, filename |-> FilenameOf(i), success |-> FALSE]>>
    ELSE <<[future |-> i, filename |-> FilenameOf(i), success |-> outcome = "success"]>>

\* no call is running
PfIdle ==
    /\ pf_n = 0
    /\ pf_state = [i \in 1..MaxFiles |-> "queued"]
    /\ pf_outcome = [i \in 1..MaxFiles |-> "none"]
    /\ pf_results = <<>>
    /\ pf_pc = "idle"

\* process_files_parallel is called: every file is submitted to the pool
PfInit ==
    /\ pf_n \in 0..MaxFiles
    /\ pf_state = [i \in 1..MaxFiles |-> "queued"]
    /\ pf_outcome = [i \in 1..MaxFiles |-> "none"]
    /\ pf_results = <<>>
    /\ pf_pc = "running"

\* a free worker takes the next submitted file from the queue of the pool
PfStart ==
    /\ pf_pc = "running"
    /\ WorkerFree
    /\ \E i \in PfFiles :
          /\ pf_state[i] = "queued"
          /\ \A j \in PfFiles : j < i => pf_state[j] # "queued"
          /\ pf_state' = [pf_state EXCEPT ![i] = "running"]
    /\ UNCHANGED <<pf_n, pf_outcome, pf_results, pf_pc>>
    /\ UNCHANGED pfRest

\* a worker ends its process_single_file call
PfFinish ==
    /\ pf_pc = "running"
    /\ \E i \in PfRunning, outcome \in SingleFileOutcomes :
          /\ pf_state' = [pf_state EXCEPT ![i] = "finished"]
          /\ pf_outcome' = [pf_outcome EXCEPT ![i] = outcome]
    /\ UNCHANGED <<pf_n, pf_results, pf_pc>>
    /\ UNCHANGED pfRest

\* one iteration of `for future in as_completed(future_to_file)`
PfCollect ==
    /\ pf_pc = "running"
    /\ \E i \in PfFiles :
          /\ pf_state[i] = "finished"
          /\ pf_results' = pf_results \o RecordOf(i, pf_outcome[i])
          /\ pf_state' = [pf_state EXCEPT ![i] = "collected"]
    /\ UNCHANGED <<pf_n, pf_outcome, pf_pc>>
    /\ UNCHANGED pfRest

\* every future was yielded: the with block ends and results is returned
PfReturn ==
    /\ pf_pc = "running"
    /\ \A i \in PfFiles : pf_state[i] = "collected"
    /\ pf_pc' = "returned"
    /\ UNCHANGED <<pf_n, pf_state, pf_outcome, pf_results>>
    /\ UNCHANGED pfRest

PfNext ==
    \/ PfStart
    \/ PfFinish
    \/ PfCollect
    \/ PfReturn

(***************************************************************************)
(* init_opensearch at the start of the application (app.py)                *)
(***************************************************************************)
\* how create_index can end at startup: the index is created, it is there
\* already, or the check or the creation raises inside create_index
SchemaOutcomes == {"created", "exists", "failed"}

\* the application is not being started
SuIdle ==
    /\ su_pc = "idle"
    /\ su_os_client = "None"
    /\ su_schema = "not called"
    /\ su_ready = FALSE

\* the module is loaded: os_client = None, init_opensearch not yet called
SuInit ==
    /\ su_pc = "boot"
    /\ su_os_client = "None"
    /\ su_schema = "not called"
    /\ su_ready = FALSE

\* init_opensearch(): get_os_client may raise, which leaves os_client None;
\* otherwise os_client is assigned and create_index is called, whose own
\* except clause keeps a failure from reaching init_opensearch
InitOpensearch ==
    /\ su_pc = "boot"
    /\ \/ /\ su_os_client' = "None"
          /\ su_schema' = "not called"
          /\ su_ready' = FALSE
       \/ \E schema \in SchemaOutcomes :
             /\ su_os_client' = "client"
             /\ su_schema' = schema
             /\ su_ready' = (schema # "failed" \/ ExceptClause("create_index") = "returned")
    /\ su_pc' = "up"
    /\ UNCHANGED suRest

\* a later upload: process_single_file is called with a file and sees the
\* os_client that startup left
UploadArrives ==
    /\ su_pc = "up"
    /\ in_pc = "idle"
    /\ in_file' \in Files
    /\ in_os' = (su_os_client # "None")
    /\ in_pc' = "ready"
    /\ UNCHANGED <<in_s3, in_pages, in_chunks, in_batch, in_index, in_failed,
                   in_attempts, in_result>>
    /\ UNCHANGED inRest

SuNext ==
    \/ InitOpensearch
    \/ UploadArrives
    \/ ValidateAndStore
    \/ ExtractPdfContent
    \/ BuildChunks
    \/ EmbedChunks
    \/ PrepareBulk
    \/ BulkBatch
    \/ ReturnResult

(***************************************************************************)
(* _calculate_importance_score (app.py)                                    *)
(***************************************************************************)
\* w in s (Python's substring test)
Contains(s, w) == \E p \in 0..(Len(s) - Len(w)) : StartsWithAt(s, p, w)

\* medical_keywords
medical_keywords == <<
    <<"t", "r", "e", "a", "t", "m", "e", "n", "t">>,
    <<"d", "i", "a", "g", "n", "o", "s", "i", "s">>,
    <<"m", "e", "d", "i", "c", "a", "t", "i", "o", "n">>,
    <<"d", "o", "s", "a", "g", "e">>,
    <<"p", "r", "o", "c", "e", "d", "u", "r", "e">>,
    <<"s", "y", "m", "p", "t", "o", "m", "s">>
>>

\* the terms of the second boost
warning_terms == <<
    <<"c", "o", "n", "t", "r", "a", "i", "n", "d", "i", "c", "a", "t", "i", "o", "n">>,
    <<"a", "d", "v", "e", "r", "s", "e">>,
    <<"w", "a", "r", "n", "i", "n", "g">>,
    <<"c", "a", "u", "t", "i", "o", "n">>
>>

\* the members of ContentType
ContentTypes == {"header", "paragraph", "list", "table", "procedure",
                 "medication", "diagnosis"}

\* type_weights, in tenths
type_weights(content_type) ==
    CASE content_type = "header" -> 9
      [] content_type \in {"medication", "diagnosis"} -> 8
      [] content_type \in {"procedure", "table"} -> 7
      [] content_type = "list" -> 6
      [] OTHER -> 5

\* a return statement without the cap
Uncapped(score) == score

\* min(score, 1.0), in tenths
Capped(score) == Min2(score, 10)

\* _calculate_importance_score, in tenths: the type weight, a tenth for each
\* medical keyword in the lower-cased text up to three tenths, two tenths
\* when one of the warning terms is in it, capped at 1.0
CalculateImportanceScore(text, content_type) ==
    LET text_lower == Lower(text)
        keyword_count == Cardinality({k \in 1..Len(medical_keywords) :
                                         Contains(text_lower, medical_keywords[k])})
        boosted == type_weights(content_type) + Min2(keyword_count, 3)
        warned == IF \E k \in 1..Len(warning_terms) :
                        Contains(text_lower, warning_terms[k])
                  THEN boosted + 2 ELSE boosted
    IN Capped(warned)

\* the keywords the claim adds to a text
BoostingKeywords ==
    {medical_keywords[k] : k \in 1..Len(medical_keywords)}
    \cup {warning_terms[k] : k \in 1..Len(warning_terms)}

\* the texts scored first
ScoreTexts == {
    <<>>,
    <<"W", "A", "R", "N", "I", "N", "G", ":", " ", "D", "o", "s", "a", "g", "e">>,
    <<"n", "o", " ", "s", "y", "m", "p", "t", "o", "m">>
}

\* the largest number of keywords added to a text
MaxAdded == 2

\* nothing is being scored
IsIdle ==
    /\ is_text = <<>>
    /\ is_type = "paragraph"
    /\ is_score = 0
    /\ is_prev = 0
    /\ is_added = 0
    /\ is_pc = "idle"

\* a text and a content type to score
IsInit ==
    /\ is_text \in ScoreTexts
    /\ is_type \in ContentTypes
    /\ is_score = 0
    /\ is_prev = 0
    /\ is_added = 0
    /\ is_pc = "ready"

\* _calculate_importance_score(text, content_type)
ScoreText ==
    /\ is_pc = "ready"
    /\ is_score' = CalculateImportanceScore(is_text, is_type)
    /\ is_pc' = "scored"
    /\ UNCHANGED <<is_text, is_type, is_prev, is_added>>
    /\ UNCHANGED isRest

\* a boosting keyword is added to the text, in front or at the end, and the
\* text is scored again with the same content type
AddKeywordAndScore ==
    /\ is_pc = "scored"
    /\ is_added < MaxAdded
    /\ \E keyword \in BoostingKeywords, in_front \in BOOLEAN :
          /\ is_text' = IF in_front THEN keyword \o <<" ">> \o is_text
                        ELSE is_text \o <<" ">> \o keyword
          /\ is_score' = CalculateImportanceScore(is_text', is_type)
    /\ is_prev' = is_score
    /\ is_added' = is_added + 1
    /\ UNCHANGED <<is_type, is_pc>>
    /\ UNCHANGED isRest

IsNext ==
    \/ ScoreText
    \/ AddKeywordAndScore

(***************************************************************************)
(* Specifications                                                          *)
(***************************************************************************)
\* a call of the boundary finder, the chunker not running
SplitInit ==
    BfInit /\ CkIdle /\ InIdle /\ QyIdle /\ PeIdle /\ EcIdle /\ IxIdle /\
    PfIdle /\ SuIdle /\ IsIdle

SpecSplit == SplitInit /\ [][BfNext]_vars

\* the chunking of one page
ChunkInit ==
    BfIdle /\ CkInit /\ InIdle /\ QyIdle /\ PeIdle /\ EcIdle /\ IxIdle /\
    PfIdle /\ SuIdle /\ IsIdle

SpecChunk == ChunkInit /\ [][CkNext]_vars

\* the ingestion of one uploaded file
IngestInit ==
    BfIdle /\ CkIdle /\ InInit /\ QyIdle /\ PeIdle /\ EcIdle /\ IxIdle /\
    PfIdle /\ SuIdle /\ IsIdle

SpecIngest == IngestInit /\ [][InNext]_vars

\* one query request
QueryInit ==
    BfIdle /\ CkIdle /\ InIdle /\ QyInit /\ PeIdle /\ EcIdle /\ IxIdle /\
    PfIdle /\ SuIdle /\ IsIdle

SpecQuery == QueryInit /\ [][QyNext]_vars

\* one document through PDFEmbeddingService.process_pdf_content
PdfServiceInit ==
    BfIdle /\ CkIdle /\ InIdle /\ QyIdle /\ PeInit /\ EcIdle /\ IxIdle /\
    PfIdle /\ SuIdle /\ IsIdle

SpecPdfService == PdfServiceInit /\ [][PeNext]_vars

\* threads calling get_cached_embedding
CacheInit ==
    BfIdle /\ CkIdle /\ InIdle /\ QyIdle /\ PeIdle /\ EcInit /\ IxIdle /\
    PfIdle /\ SuIdle /\ IsIdle

SpecCache == CacheInit /\ [][EcNext]_vars

\* processes creating the index
IndexInit ==
    BfIdle /\ CkIdle /\ InIdle /\ QyIdle /\ PeIdle /\ EcIdle /\ IxInit /\
    PfIdle /\ SuIdle /\ IsIdle

SpecIndex == IndexInit /\ [][IxNext]_vars

\* one call of process_files_parallel
ParallelInit ==
    BfIdle /\ CkIdle /\ InIdle /\ QyIdle /\ PeIdle /\ EcIdle /\ IxIdle /\
    PfInit /\ SuIdle /\ IsIdle

SpecParallel == ParallelInit /\ [][PfNext]_vars

\* the start of the application and a later upload
StartupInit ==
    BfIdle /\ CkIdle /\ InIdle /\ QyIdle /\ PeIdle /\ EcIdle /\ IxIdle /\
    PfIdle /\ SuInit /\ IsIdle

SpecStartup == StartupInit /\ [][SuNext]_vars

\* the scoring of a text to which keywords are added
ScoreInit ==
    BfIdle /\ CkIdle /\ InIdle /\ QyIdle /\ PeIdle /\ EcIdle /\ IxIdle /\
    PfIdle /\ SuIdle /\ IsInit

SpecScore == ScoreInit /\ [][IsNext]_vars

(***************************************************************************)
(* C1: boundary safety of _find_best_split_point.  The patterns of the     *)
(* claim are the case-sensitive ones: \d+\s*(mg|ml|mcg) and                *)
(* \b[A-Z][a-z]+\s+[A-Z][a-z]+\b.                                         *)
(***************************************************************************)
\* end of the match of \d+\s*<unit> that starts at s, or -1
ClaimDosageEnd(text, s, unit) ==
    IF s >= Len(text) \/ At(text, s) \notin Digits THEN -1
    ELSE LET u == RunEnd(text, RunEnd(text, s, Digits), Whitespace)
         IN IF StartsWithAt(text, u, unit) THEN u + Len(unit) ELSE -1

\* end of the match of \b[A-Z][a-z]+\s+[A-Z][a-z]+\b that starts at s, or -1
ClaimDrugNameEnd(text, s) ==
    IF s >= Len(text) \/ At(text, s) \notin UpperChars \/ ~WordBoundary(text, s) THEN -1
    ELSE LET a == RunEnd(text, s + 1, LowerChars)
             b == RunEnd(text, a, Whitespace)
         IN IF a > s + 1 /\ b > a /\ b < Len(text) /\ At(text, b) \in UpperChars
            THEN LET e == RunEnd(text, b + 1, LowerChars)
                 IN IF e > b + 1 /\ WordBoundary(text, e) THEN e ELSE -1
            ELSE -1

\* pos lies strictly inside a match of a dosage pattern or of the drug-name
\* pattern of the claim
InsideMedicalTerm(text, pos) ==
    \E s \in 0..pos - 1 :
        \/ \E unit \in {UnitMg, UnitMl, UnitMcg} : ClaimDosageEnd(text, s, unit) > pos
        \/ ClaimDrugNameEnd(text, s) > pos

\* C1 (as claimed): the position _find_best_split_point returns never lies
\* strictly inside a dosage match or a two-word capitalized drug name,
\* whichever return statement produced it, the raw-target fallback included.
C1_SplitNeverInsideMedicalTerm ==
    bf_pc = "returned" => ~InsideMedicalTerm(bf_text, bf_result)

(***************************************************************************)
(* C2: overlap between consecutive chunks of one window loop.              *)
(***************************************************************************)
\* w occurs in s as a contiguous substring
IsSubstring(w, s) ==
    \E p \in 0..Len(s) - Len(w) : StartsWithAt(s, p, w)

\* the last n characters of s (all of s when it is shorter)
LastChars(s, n) == SubSeq(s, Max2(1, Len(s) - n + 1), Len(s))

\* chunks k and k+1 come from the same loop over contiguous text: both from
\* _create_enhanced_chunks, or both parts of the same section
SameWindowLoop(k) ==
    LET c == ck_chunks[k]
        d == ck_chunks[k + 1]
    IN \/ c.chunk_type = "enhanced" /\ d.chunk_type = "enhanced"
       \/ /\ c.chunk_type = "section_part" /\ d.chunk_type = "section_part"
          /\ \E j \in 1..Len(ck_sections) :
                /\ SectionStart(ck_sections, j) <= c.start
                /\ c.start < SectionEnd(ck_text, ck_sections, j)
                /\ SectionStart(ck_sections, j) <= d.start
                /\ d.start < SectionEnd(ck_text, ck_sections, j)

\* C2 (as claimed): for consecutive chunks of _create_enhanced_chunks or of
\* one _split_large_section call, the last `overlap` characters of chunk i
\* occur in the text of chunk i+1 (read leniently: anywhere in it).
C2_OverlapSharedByNeighbours ==
    \A k \in 1..Len(ck_chunks) - 1 :
        SameWindowLoop(k) =>
            IsSubstring(LastChars(ck_chunks[k].body, ck_overlap), ck_chunks[k + 1].body)

(***************************************************************************)
(* C3: a page of one short sentence.                                       *)
(***************************************************************************)
\* the text is one sentence: not empty, and no place where a tokenizer
\* could end a sentence inside it
OneSentence(text) == text # <<>> /\ BreakCandidates(text) = {}

\* C3 (as claimed): a page whose text is exactly one sentence shorter than
\* max_chars is chunked into exactly one chunk, whose text is the stripped
\* page text.
C3_OneSentenceOneChunk ==
    (ck_pc = "done" /\ OneSentence(ck_raw) /\ Len(ck_raw) < ck_max) =>
        (Len(ck_chunks) = 1 /\ ck_chunks[1].text = Strip(ck_raw))

(***************************************************************************)
(* C4: the dosage scenario through the upload pipeline.                    *)
(***************************************************************************)
\* the file was processed to the end with an index client and every bulk
\* batch written
IngestedCleanly ==
    /\ in_pc = "returned"
    /\ in_result.success
    /\ in_os
    /\ in_failed = 0

\* C4 (as claimed): when a page with the text "Metformin 500mg twice daily
\* for type 2 diabetes" has gone through process_single_file (chunked,
\* embedded, every bulk batch written), the index holds a record with that
\* text whose content type is medication and whose chunk_metadata has
\* contains_dosage = true.
C4_DosageChunkIndexedAsMedication ==
    (IngestedCleanly /\ \E p \in 1..Len(in_pages) : in_pages[p] = MetforminText) =>
        \E j \in 1..Len(in_index) :
            /\ in_index[j].text = MetforminText
            /\ in_index[j].content_type = "medication"
            /\ "contains_dosage" \in DOMAIN in_index[j].chunk_metadata
            /\ in_index[j].chunk_metadata.contains_dosage

(***************************************************************************)
(* C5: a five-page document with one page without text.                    *)
(***************************************************************************)
\* the pages of the extracted document that have no text (empty OCR too)
FailedPages == {p \in 1..Len(in_pages) : in_pages[p] = <<>>}

\* C5 (as claimed): when a 5-page document with exactly one page without
\* text (OCR empty too) has been processed, every other page has a chunk and
\* the result reports failed_pages = 1 and status partial.
C5_OneFailedPageReportedPartial ==
    (/\ in_pc = "returned"
     /\ in_result.success
     /\ Len(in_pages) = 5
     /\ Cardinality(FailedPages) = 1) =>
        /\ \A p \in (1..Len(in_pages)) \ FailedPages :
              \E k \in 1..Len(in_chunks) : in_chunks[k].page = p
        /\ "failed_pages" \in DOMAIN in_result
        /\ in_result.failed_pages = 1
        /\ "status" \in DOMAIN in_result
        /\ in_result.status = "partial"

(***************************************************************************)
(* C6: deduplication of the sources of chat_query_compat.                  *)
(***************************************************************************)
\* chat_query_compat returned its response dictionary
ChatAnswered ==
    /\ qy_pc = "returned"
    /\ qy_handler = "chat"
    /\ qy_response.kind = "ok"

\* hit h is the first hit with its cleaned filename
FirstOfFilename(h) ==
    \A g \in 1..h - 1 :
        CleanFilename(qy_hits[g].s3_key) # CleanFilename(qy_hits[h].s3_key)

\* C6: in the sources chat_query_compat returns, no two entries have the
\* same cleaned filename, there are at most top_k entries, every entry is
\* taken from a hit that has the highest score among the hits with its
\* cleaned filename, and every cleaned filename whose first hit has text
\* has an entry.
C6_SourcesDeduplicated ==
    ChatAnswered =>
        LET sources == qy_response.sources
        IN /\ \A i, j \in 1..Len(sources) :
                 i # j => sources[i].filename # sources[j].filename
           /\ Len(sources) <= qy_top_k
           /\ \A i \in 1..Len(sources) :
                 \E h \in 1..Len(qy_hits) :
                    /\ CleanFilename(qy_hits[h].s3_key) = sources[i].filename
                    /\ qy_hits[h].doc_id = sources[i].documentId
                    /\ qy_hits[h].score = sources[i].relevanceScore
                    /\ \A g \in 1..Len(qy_hits) :
                          CleanFilename(qy_hits[g].s3_key) = sources[i].filename
                             => qy_hits[g].score <= qy_hits[h].score
           /\ \A h \in 1..Len(qy_hits) :
                 (FirstOfFilename(h) /\ Strip(qy_hits[h].text) # <<>>) =>
                     \E i \in 1..Len(sources) :
                         /\ sources[i].filename = CleanFilename(qy_hits[h].s3_key)
                         /\ sources[i].documentId = qy_hits[h].doc_id

\* two hits with text from different documents with the same cleaned
\* filename and different scores were collapsed into the entry of the
\* higher-scoring one
C6_Witness ==
    /\ ChatAnswered
    /\ \E g, h \in 1..Len(qy_hits) :
          /\ qy_hits[g].doc_id # qy_hits[h].doc_id
          /\ CleanFilename(qy_hits[g].s3_key) = CleanFilename(qy_hits[h].s3_key)
          /\ qy_hits[g].score > qy_hits[h].score
          /\ Strip(qy_hits[g].text) # <<>>
          /\ Strip(qy_hits[h].text) # <<>>
          /\ Len(qy_response.sources) = 1
          /\ qy_response.sources[1].documentId = qy_hits[g].doc_id

(***************************************************************************)
(* C7: the sentinel answer and its citations.                              *)
(***************************************************************************)
\* the citation list of the response of answer_with_bedrock, the sources of
\* the response of chat_query_compat
ResponseItems ==
    IF qy_handler = "answer" THEN qy_response.citations ELSE qy_response.sources

\* an endpoint of app.py returned its response dictionary
EndpointAnswered ==
    /\ qy_pc = "returned"
    /\ qy_handler \in {"answer", "chat"}
    /\ qy_response.kind = "ok"

\* C7 (as claimed): whenever an endpoint returns the sentinel answer, the
\* citation list returned with it is empty, also when the sentinel comes
\* from the generator.
C7_SentinelHasNoCitations ==
    (EndpointAnswered /\ qy_response.answer = Sentinel) => ResponseItems = <<>>

(***************************************************************************)
(* C8: a query that gets no hits.                                          *)
(***************************************************************************)
\* an endpoint of app.py searched the index and got no hits
SearchedNoHits ==
    /\ qy_pc = "returned"
    /\ qy_handler \in {"answer", "chat"}
    /\ qy_index = "ok"
    /\ qy_hits = <<>>

\* C8: when the search of answer_with_bedrock or chat_query_compat returns
\* no hits, the response is the sentinel answer with an empty citation or
\* source list, and the text generator was not called.
C8_NoHitsGivesSentinel ==
    SearchedNoHits =>
        /\ qy_response.kind = "ok"
        /\ qy_response.answer = Sentinel
        /\ ResponseItems = <<>>
        /\ qy_gen_calls = 0

\* answer_with_bedrock searched, got no hits and returned
C8_Witness ==
    /\ SearchedNoHits
    /\ qy_handler = "answer"
    /\ qy_response.answer = Sentinel

(***************************************************************************)
(* C9: a query while the index is unreachable.                             *)
(***************************************************************************)
\* C9 (as claimed): when an index call of the request failed (the search or
\* the count), the response is tagged as an error or as service
\* unavailable.
C9_IndexFailureTagged ==
    (qy_pc = "returned" /\ qy_index = "failed") =>
        qy_response.kind \in {"error", "unavailable"}

(***************************************************************************)
(* C10: the result of an ingestion with a failed bulk batch.               *)
(***************************************************************************)
\* C10 (as claimed): when a bulk batch of the document raised, the returned
\* result is not the one of a fully written ingestion: it does not carry
\* success = true together with the full chunk count.
C10_FailedBatchReportedPartial ==
    (in_pc = "returned" /\ in_failed >= 1) =>
        ~(in_result.success /\ in_result.chunks_count = Len(in_chunks))

(***************************************************************************)
(* C11: the batches of bulk_index_chunks.                                  *)
(***************************************************************************)
\* bulk_index_chunks made bulk calls and its batch loop has ended
BulkLoopDone ==
    /\ in_pc \in {"finish", "returned"}
    /\ in_attempts # <<>>

\* the bulk calls that carried both lines of chunk k of the document
AttemptsOfChunk(k) ==
    {a \in 1..Len(in_attempts) :
        /\ in_attempts[a].first <= 2 * (k - 1)
        /\ 2 * (k - 1) + 2 <= in_attempts[a].first + in_attempts[a].lines}

\* C11: every bulk call of bulk_index_chunks carries at most 100 records
\* (two lines each); once the loop has ended every chunk of the document
\* was in exactly one call, a call that raised did not stop the loop (the
\* calls made are the ceil(chunks / 100) consecutive batches), and the
\* function returned normally: process_single_file reports success.
C11_BatchesOfHundredAllAttempted ==
    /\ \A a \in 1..Len(in_attempts) :
          /\ in_attempts[a].lines <= 2 * bulk_batch_size
          /\ in_attempts[a].first = (a - 1) * 2 * bulk_batch_size
    /\ BulkLoopDone =>
          /\ \A k \in 1..Len(in_chunks) : Cardinality(AttemptsOfChunk(k)) = 1
          /\ Len(in_attempts) =
                (Len(in_chunks) + bulk_batch_size - 1) \div bulk_batch_size
    /\ (BulkLoopDone /\ in_pc = "returned") =>
          (in_result.success /\ in_result.chunks_count = Len(in_chunks))

\* a document of more than 100 chunks whose first bulk call raised and
\* whose second was still made and written
C11_Witness ==
    /\ BulkLoopDone
    /\ in_pc = "returned"
    /\ Len(in_chunks) > bulk_batch_size
    /\ Len(in_attempts) = 2
    /\ in_attempts[1].raised
    /\ ~in_attempts[2].raised
    /\ Len(in_index) = Len(in_chunks) - bulk_batch_size

(***************************************************************************)
(* C12: an embedding failure for a chunk of a document.                    *)
(***************************************************************************)
\* process_single_file returned after chunks were produced and the
\* embedding call did not give them vectors (model.encode raised)
EmbeddingFailed ==
    /\ in_pc = "returned"
    /\ in_chunks # <<>>
    /\ "embedding" \notin DOMAIN in_chunks[1]

\* C12 (as claimed): when the embedding of a chunk of the uploaded document
\* failed, ingestion still completes: the result reports success with fewer
\* chunks than were produced, and with an index client the other chunks of
\* the document are in the index.
C12_EmbeddingFailureDropsOneChunk ==
    EmbeddingFailed =>
        /\ in_result.success
        /\ in_result.chunks_count < Len(in_chunks)
        /\ (in_os /\ Len(in_chunks) > 1) => in_index # <<>>

(***************************************************************************)
(* C13: a failed text extraction.                                          *)
(***************************************************************************)
\* C13 (as claimed): when the text extraction of the document failed, the
\* result of process_pdf_content is a failure that carries the reason, no
\* chunk of the document was produced or indexed, and the document is not
\* recorded as completed.
C13_ExtractionFailureReportedFailed ==
    (pe_pc = "returned" /\ ExtractionFails(pe_file)) =>
        /\ pe_result.status = "failed"
        /\ "error" \in DOMAIN pe_result
        /\ pe_chunks = <<>>
        /\ pe_index = <<>>
        /\ pe_meta.processing_status # "completed"

(***************************************************************************)
(* C14: transparency of get_cached_embedding.                              *)
(***************************************************************************)
\* C14 (as claimed): whatever calls were made before, a call of
\* get_cached_embedding returns the vector the model computes for its own
\* text, also when another text with the same hash value was cached before.
C14_CacheTransparent ==
    \A t \in EcThreads :
        ec_pc[t] = "returned" => ec_ret[t] = Encode(ec_text[t], ec_model[t])

(***************************************************************************)
(* C15: the cache under concurrent calls.                                  *)
(***************************************************************************)
\* C15: under every interleaving of the calls, a thread that reads or
\* writes the cache (it is inside one of the two with blocks) holds the
\* lock, so at most one thread is there at a time; and the cache never holds
\* more than CacheLimit + 1 entries (1001 in the source), because an insert
\* into a cache of more than CacheLimit entries clears it first.
C15_CacheLockedAndBounded ==
    /\ \A t \in EcThreads : ec_pc[t] \in {"lookup", "insert"} => ec_lock = t
    /\ Cardinality(DOMAIN ec_cache) <= CacheLimit + 1

\* the cache holds CacheLimit + 1 entries, one thread is inside the second
\* with block about to insert a key that is not cached, which clears the
\* cache, and the other thread waits for the lock
C15_Witness ==
    /\ Cardinality(DOMAIN ec_cache) = CacheLimit + 1
    /\ \E t \in EcThreads :
          /\ ec_pc[t] = "insert"
          /\ ec_lock = t
          /\ CacheKey(ec_text[t], ec_model[t]) \notin DOMAIN ec_cache
          /\ \E u \in EcThreads \ {t} : ec_pc[u] \in {"wait_lookup", "wait_insert"}

(***************************************************************************)
(* C16: index creation by several processes.                               *)
(***************************************************************************)
\* C16: for all sequential and interleaved calls of create_index and
\* _create_index_if_not_exists by the processes, the server creates the
\* index at most once, no call raises to its caller, and a call whose
\* indices.create was refused as a duplicate (it lost the race between
\* check and create) has returned normally like a successful one.
C16_IndexCreatedOnceNoRaise ==
    /\ ix_created <= 1
    /\ \A p \in IxProcs :
          /\ ix_pc[p] # "raised"
          /\ ix_outcome[p] = "resource_already_exists_exception" =>
                (ix_pc[p] = "returned" /\ ix_exists)

\* two processes saw the index absent; one created it, the other was
\* refused as a duplicate and returned normally
C16_Witness ==
    \E p, q \in IxProcs :
        /\ p # q
        /\ ix_seen[p] = "absent" /\ ix_seen[q] = "absent"
        /\ ix_outcome[p] = "acknowledged"
        /\ ix_outcome[q] = "resource_already_exists_exception"
        /\ ix_pc[p] = "returned" /\ ix_pc[q] = "returned"
        /\ ix_created = 1

(***************************************************************************)
(* C17: the results of process_files_parallel.                             *)
(***************************************************************************)
\* the records of results that belong to the i-th submitted file
RecordsOfFile(i) == {k \in 1..Len(pf_results) : pf_results[k].future = i}

\* C17: at every moment at most max_workers files are being processed; and
\* when process_files_parallel returns, results holds exactly one record
\* for every submitted file (also for files of the same name), with the
\* name of that file and success exactly when its own process_single_file
\* call succeeded, whichever of the other files failed or raised.
C17_OneResultPerFile ==
    /\ Cardinality(PfRunning) <= max_workers
    /\ pf_pc = "returned" =>
          /\ Len(pf_results) = pf_n
          /\ \A i \in PfFiles :
                /\ Cardinality(RecordsOfFile(i)) = 1
                /\ \A k \in RecordsOfFile(i) :
                      /\ pf_results[k].filename = FilenameOf(i)
                      /\ pf_results[k].success = (pf_outcome[i] = "success")

\* more files than workers were submitted, one raised, one returned an
\* error, the others succeeded, and the call has returned
C17_Witness ==
    /\ pf_pc = "returned"
    /\ pf_n > max_workers
    /\ \E i, j \in PfFiles :
          /\ pf_outcome[i] = "raised"
          /\ pf_outcome[j] = "failed"
          /\ \A k \in PfFiles \ {i, j} : pf_outcome[k] = "success"
    /\ pf_results[1].future # 1

(***************************************************************************)
(* C18: a failed index-schema creation at startup.                         *)
(***************************************************************************)
\* C18 (as claimed): when create_index failed at startup, the indexing
\* subsystem is not reported ready and a later upload makes no write to the
\* index (no bulk call).
C18_SchemaFailureDisablesIndexing ==
    su_schema = "failed" =>
        /\ ~su_ready
        /\ in_attempts = <<>>

(***************************************************************************)
(* C19: monotonicity and cap of the importance score.                      *)
(***************************************************************************)
\* C19: with the content type unchanged, adding a boosting keyword to a
\* text never lowers the value of _calculate_importance_score, and the
\* value never exceeds 1.0 (ten tenths).
C19_ScoreMonotoneAndCapped ==
    /\ is_score <= 10
    /\ is_added > 0 => is_prev <= is_score

\* a header text with a warning term reached the cap, and a keyword added
\* to it left the score at 1.0
C19_Witness ==
    /\ is_pc = "scored"
    /\ is_type = "header"
    /\ is_added = MaxAdded
    /\ is_prev = 10
    /\ is_score = 10

SpanText(k) == Slice(ck_text, ck_chunks[k].start, ck_chunks[k].end)

\* C21 (as claimed): for every chunk of kind section, section_part or
\* enhanced, page_text[start:end] with the surrounding whitespace removed is
\* the chunk's text before the context marker is added (read leniently: the
\* chunk's text is compared with its surrounding whitespace removed too, as
\* the last chunk of a window loop is not stripped).
C21_SpanDesignatesChunkText ==
    \A k \in 1..Len(ck_chunks) :
        ck_chunks[k].chunk_type \in {"section", "section_part", "enhanced"} =>
            Strip(SpanText(k)) = Strip(ck_chunks[k].body)

(***************************************************************************)
(* C22: where the next window starts.                                      *)
(***************************************************************************)
\* a window loop is running and has completed an iteration
InWindowLoop == ck_pc \in {"enhanced", "split"} /\ ck_prev_i >= 0

\* the offset of the text of the running loop within the page text
LoopOffset ==
    IF ck_pc = "split" THEN SectionStart(ck_sections, ck_sec) ELSE 0

\* the last iteration of the running loop emitted the last chunk
EmittedLast ==
    /\ InWindowLoop
    /\ ck_chunks # <<>>
    /\ ck_chunks[Len(ck_chunks)].start = LoopOffset + ck_prev_i
    /\ ck_chunks[Len(ck_chunks)].chunk_type \in {"enhanced", "section_part"}

\* C22 (as claimed): after a chunk [i, end) is emitted, the next window
\* starts at max(i + 1, end - overlap) or before it, never later.
C22_NextStartNotLater ==
    EmittedLast =>
        ck_i <= Max2(ck_prev_i + 1,
                     ck_chunks[Len(ck_chunks)].end - LoopOffset - ck_overlap)

(***************************************************************************)
(* C23: the priority order of _find_best_split_point.                      *)
(***************************************************************************)
\* pos is a boundary between two sentences of text for some tokenization:
\* it lies between the end of a sentence and the start of the next one
IsSentenceBoundary(text, pos) ==
    \E b \in BreakCandidates(text) : b <= pos /\ pos <= RunEnd(text, b, Whitespace)

\* the safe positions of text that hold a character of S and are less than
\* max_search away from target_pos
SafeInWindow(text, target_pos, max_search, S) ==
    {p \in SafePositions(text, S) : Abs(p - target_pos) < max_search}

\* pos is an element of P nearest to target_pos
NearestIn(P, target_pos, pos) ==
    pos \in P /\ \A q \in P : Abs(pos - target_pos) <= Abs(q - target_pos)

\* C23 (as claimed): the position returned is within max_search of the
\* target (len(text) for a target at or past the end); when it comes from
\* the sentence step it is a safe boundary between two sentences; otherwise
\* it is the nearest safe line break of the window; otherwise the nearest
\* safe blank; and it is the raw target only when the window holds neither.
C23_SplitPointPriority ==
    bf_pc = "returned" =>
        IF bf_target >= Len(bf_text) THEN bf_result = Len(bf_text)
        ELSE LET lines  == SafeInWindow(bf_text, bf_target, bf_search, {NL, CR})
                 blanks == SafeInWindow(bf_text, bf_target, bf_search, {" "})
             IN /\ Abs(bf_result - bf_target) <= bf_search
                /\ bf_path = "sentence" =>
                      /\ IsSentenceBoundary(bf_text, bf_result)
                      /\ IsMedicalTermBoundary(bf_text, bf_result)
                /\ bf_path = "line" => NearestIn(lines, bf_target, bf_result)
                /\ bf_path = "space" =>
                      lines = {} /\ NearestIn(blanks, bf_target, bf_result)
                /\ bf_path = "raw" =>
                      lines = {} /\ blanks = {} /\ bf_result = bf_target

(***************************************************************************)
(* C24: the medical-term safety check                                      *)
(***************************************************************************)
\* the matches of the five patterns in the window around pos, as pairs of
\* positions of text
WindowMatches(text, pos) ==
    LET window_start == Max2(0, pos - WindowRadius)
        window_end   == Min2(Len(text), pos + WindowRadius)
        window       == Slice(text, window_start, window_end)
    IN UNION {{<<window_start + m[1], window_start + m[2]>> :
                  m \in FindIter(medical_patterns[k], window, 0)} :
              k \in 1..Len(medical_patterns)}

\* pos lies strictly inside a match of the window
StrictlyInsideMatch(text, pos) ==
    \E m \in WindowMatches(text, pos) : m[1] < pos /\ pos < m[2]

\* C24 (as claimed): _is_medical_term_boundary calls a position unsafe
\* exactly when it lies strictly inside a match of a medical pattern found in
\* the window around it; a position on the start or the end of a match, or
\* outside 0 < pos < len(text), is safe.
C24_UnsafeExactlyInsideMatch ==
    bf_pc = "returned" =>
        \A pos \in 0..Len(bf_text) :
            IsMedicalTermBoundary(bf_text, pos) <=>
                (pos <= 0 \/ pos >= Len(bf_text) \/ ~StrictlyInsideMatch(bf_text, pos))

(***************************************************************************)
(* _detect_content_type (app.py)                                           *)
(***************************************************************************)
\* str.isupper(): a cased character, and no lower-case one
IsUpper(s) ==
    /\ \E i \in 1..Len(s) : s[i] \in UpperChars
    /\ \A i \in 1..Len(s) : s[i] \notin LowerChars

\* the length under which an upper-case text is a header
UpperHeaderMaxLen == 100

\* the header test, on text.strip(): the all-capitals pattern, the numbered
\* pattern, or a text of fewer than 100 characters that is upper-case
HeaderPattern(text) ==
    LET stripped == Strip(text)
    IN \/ AllCapsHeader(stripped)
       \/ NumberedHeader(stripped)
       \/ (Len(stripped) < UpperHeaderMaxLen /\ IsUpper(stripped))

\* re.match(r'^\s*[(bullet)\-\*]\s+', text)
BulletItem(text) ==
    LET w == RunEnd(text, 0, Whitespace)
    IN /\ w < Len(text)
       /\ At(text, w) \in BulletChars
       /\ w + 1 < Len(text)
       /\ At(text, w + 1) \in Whitespace

\* re.match(r'^\s*\d+[.)\s]', text)
NumberedItem(text) ==
    LET w == RunEnd(text, 0, Whitespace)
        d == RunEnd(text, w, Digits)
    IN d > w /\ d < Len(text) /\ At(text, d) \in ListSepChars

\* re.match(r'^\s*[a-z][.)\s]', text)
LetteredItem(text) ==
    LET w == RunEnd(text, 0, Whitespace)
    IN /\ w + 1 < Len(text)
       /\ At(text, w) \in LowerChars
       /\ At(text, w + 1) \in ListSepChars

\* the list test, on the text as given
ListPattern(text) == BulletItem(text) \/ NumberedItem(text) \/ LetteredItem(text)

\* medication_keywords
medication_keywords == <<
    <<"d", "o", "s", "a", "g", "e">>,
    <<"m", "g">>,
    <<"m", "l">>,
    <<"t", "a", "b", "l", "e", "t">>,
    <<"c", "a", "p", "s", "u", "l", "e">>,
    <<"m", "e", "d", "i", "c", "a", "t", "i", "o", "n">>,
    <<"d", "r", "u", "g">>,
    <<"p", "r", "e", "s", "c", "r", "i", "p", "t", "i", "o", "n">>
>>

\* procedure_keywords
procedure_keywords == <<
    <<"p", "r", "o", "c", "e", "d", "u", "r", "e">>,
    <<"s", "u", "r", "g", "e", "r", "y">>,
    <<"o", "p", "e", "r", "a", "t", "i", "o", "n">>,
    <<"t", "r", "e", "a", "t", "m", "e", "n", "t">>,
    <<"t", "h", "e", "r", "a", "p", "y">>,
    <<"i", "n", "t", "e", "r", "v", "e", "n", "t", "i", "o", "n">>
>>

\* diagnosis_keywords
diagnosis_keywords == <<
    <<"d", "i", "a", "g", "n", "o", "s", "i", "s">>,
    <<"c", "o", "n", "d", "i", "t", "i", "o", "n">>,
    <<"d", "i", "s", "e", "a", "s", "e">>,
    <<"s", "y", "n", "d", "r", "o", "m", "e">>,
    <<"d", "i", "s", "o", "r", "d", "e", "r">>,
    <<"s", "y", "m", "p", "t", "o", "m", "s">>
>>

\* any(keyword in text_lower for keyword in keywords)
AnyKeyword(keywords, text_lower) ==
    \E k \in 1..Len(keywords) : Contains(text_lower, keywords[k])

\* the keyword tests before the list test
DetectContentTypeKeywordsFirst(text) ==
    LET text_lower == Strip(Lower(text))
    IN IF HeaderPattern(text) THEN "header"
       ELSE IF AnyKeyword(medication_keywords, text_lower) THEN "medication"
       ELSE IF AnyKeyword(procedure_keywords, text_lower) THEN "procedure"
       ELSE IF AnyKeyword(diagnosis_keywords, text_lower) THEN "diagnosis"
       ELSE IF ListPattern(text) THEN "list"
       ELSE "paragraph"

\* _detect_content_type(text)
DetectContentType(text) ==
    LET text_lower == Strip(Lower(text))
    IN IF HeaderPattern(text) THEN "header"
       ELSE IF ListPattern(text) THEN "list"
       ELSE IF AnyKeyword(medication_keywords, text_lower) THEN "medication"
       ELSE IF AnyKeyword(procedure_keywords, text_lower) THEN "procedure"
       ELSE IF AnyKeyword(diagnosis_keywords, text_lower) THEN "diagnosis"
       ELSE "paragraph"

\* how the texts given to _detect_content_type begin: nothing, a bullet, a
\* number, a letter
DetectPrefixes == {
    <<>>,
    <<BULLET, " ">>,
    <<"-", " ">>,
    <<"*", " ">>,
    <<" ", "1", ")", " ">>,
    <<"1", ".", " ">>,
    <<"a", ".", " ">>,
    <<"b">>
}

\* and how they go on: headers, plain words, keywords of one or two kinds
DetectBodies == {
    <<>>,
    <<"N", "O", "T", "E", "S">>,
    <<"N", "O", "T", "E", "S", ":">>,
    <<"R", "e", "s", "t">>,
    <<"r", "e", "s", "t">>,
    <<"T", "a", "k", "e", " ", "5", " ", "m", "g">>,
    <<"t", "a", "k", "e", " ", "o", "n", "e", " ", "t", "a", "b", "l", "e", "t">>,
    <<"S", "U", "R", "G", "E", "R", "Y">>,
    <<"S", "u", "r", "g", "e", "r", "y">>,
    <<"a", "f", "t", "e", "r", " ", "s", "u", "r", "g", "e", "r", "y">>,
    <<"D", "r", "u", "g", " ", "t", "h", "e", "r", "a", "p", "y">>,
    <<"t", "h", "e", "r", "a", "p", "y", " ", "f", "o", "r", " ", "t", "h", "e", " ", "s", "y", "n", "d", "r", "o", "m", "e">>,
    <<"D", "I", "S", "E", "A", "S", "E">>,
    <<"D", "i", "s", "e", "a", "s", "e">>,
    <<"n", "o", " ", "s", "y", "m", "p", "t", "o", "m", "s">>,
    <<"d", "r", "u", "g", " ", "f", "o", "r", " ", "t", "h", "e", " ", "d", "i", "s", "e", "a", "s", "e">>,
    <<"x", NL, "T", "H", "E", "R", "A", "P", "Y">>,
    <<"5">>
}

DetectTexts == {p \o b : p \in DetectPrefixes, b \in DetectBodies}

\* a text whose type is to be detected
DtInit ==
    /\ is_text \in DetectTexts
    /\ is_type = "paragraph"
    /\ is_score = 0
    /\ is_prev = 0
    /\ is_added = 0
    /\ is_pc = "detect"

\* content_type = _detect_content_type(text)
CallDetectContentType ==
    /\ is_pc = "detect"
    /\ is_type' = DetectContentType(is_text)
    /\ is_pc' = "detected"
    /\ UNCHANGED <<is_text, is_score, is_prev, is_added>>
    /\ UNCHANGED isRest

DtNext == CallDetectContentType

\* the detection of the content type of a text
DetectInit ==
    BfIdle /\ CkIdle /\ InIdle /\ QyIdle /\ PeIdle /\ EcIdle /\ IxIdle /\
    PfIdle /\ SuIdle /\ DtInit

SpecDetect == DetectInit /\ [][DtNext]_vars

(***************************************************************************)
(* C25: the precedence of the rules of _detect_content_type                *)
(***************************************************************************)
\* the rules in the order of the claim, and the type each gives
RuleTypes == <<"header", "list", "medication", "procedure", "diagnosis">>

RuleMatches(k, text) ==
    CASE k = 1 -> HeaderPattern(text)
      [] k = 2 -> ListPattern(text)
      [] k = 3 -> AnyKeyword(medication_keywords, Strip(Lower(text)))
      [] k = 4 -> AnyKeyword(procedure_keywords, Strip(Lower(text)))
      [] k = 5 -> AnyKeyword(diagnosis_keywords, Strip(Lower(text)))

MatchingRules(text) == {k \in 1..Len(RuleTypes) : RuleMatches(k, text)}

\* C25: _detect_content_type gives every text a type: the type of the
\* earliest rule the text matches in the order header, list, medication,
\* procedure, diagnosis, and paragraph when it matches none.
C25_EarliestRuleWins ==
    is_pc = "detected" =>
        /\ is_type \in ContentTypes
        /\ LET rules == MatchingRules(is_text)
           IN is_type = IF rules = {} THEN "paragraph"
                        ELSE RuleTypes[SetMin(rules)]

\* a text that is a list item and holds keywords of two kinds has been typed
C25_Witness ==
    /\ is_pc = "detected"
    /\ {2, 3, 5} \subseteq MatchingRules(is_text)
    /\ 1 \notin MatchingRules(is_text)
    /\ is_type = "list"

(***************************************************************************)
(* C26: the citations of the answer endpoint                               *)
(***************************************************************************)
\* the ranks of the hits whose text is not blank
WithText(hits) == {k \in 1..Len(hits) : Strip(hits[k].text) # <<>>}

\* the rank of the n-th hit with text
NthWithText(hits, n) ==
    CHOOSE k \in WithText(hits) : Cardinality({j \in WithText(hits) : j <= k}) = n

\* the answer endpoint has answered from the generator
GeneratedAnswer ==
    /\ qy_pc = "returned"
    /\ qy_handler = "answer"
    /\ qy_response.kind = "ok"
    /\ qy_gen_calls = 1

\* C26: the answer endpoint returns one citation for each snippet it gave the
\* generator, at most top_k of them: citation k is labelled "[k]" and
\* describes the k-th hit with text in ranked order, which supplied the k-th
\* snippet; hits with blank text supply neither.
C26_CitationsPositional ==
    GeneratedAnswer =>
        LET citations == qy_response.citations
            with_text == WithText(qy_hits)
        IN /\ Len(citations) = Min2(qy_top_k, Cardinality(with_text))
           /\ Len(citations) <= qy_top_k
           /\ \A k \in 1..Len(citations) :
                 LET hit == qy_hits[NthWithText(qy_hits, k)]
                 IN /\ citations[k].label = CitationLabels[k]
                    /\ citations[k].s3_key = hit.s3_key
                    /\ citations[k].doc_id = hit.doc_id
                    /\ citations[k].page = hit.page

\* an answer with two citations whose first hit had a blank text
C26_Witness ==
    /\ GeneratedAnswer
    /\ Len(qy_response.citations) = 2
    /\ Strip(qy_hits[1].text) = <<>>
    /\ qy_hits[1].s3_key # qy_hits[2].s3_key

Covered(p) ==
    \E k \in 1..Len(ck_chunks) : ck_chunks[k].start <= p /\ p < ck_chunks[k].end

\* C28 (as claimed): when build_chunks_from_structured has returned, every
\* character of the page text that is not whitespace lies in the span of at
\* least one chunk, the text before the first detected header included.
C28_NoContentLost ==
    (ck_pc = "done" /\ ck_mode = "structured") =>
        \A p \in 0..Len(ck_text) - 1 :
            At(ck_text, p) \notin Whitespace => Covered(p)

(***************************************************************************)
(* make_safe_s3_key (app.py) and the hits of documents uploaded through it *)
(***************************************************************************)
\* the characters make_safe_s3_key keeps besides letters and digits
SafePunctuation == {".", "_", "-", "+"}

\* ch if ch.isalnum() or ch in "._-+" else "_"
SafeChar(ch) ==
    IF ch \in Letters \cup Digits \cup SafePunctuation THEN ch ELSE "_"

\* safe: blanks replaced by "_", parentheses removed, every other character
\* that is not kept replaced by "_" (NFKC leaves ASCII names as they are)
SafeName(original_filename) ==
    LET spaced == [i \in 1..Len(original_filename) |->
                      IF original_filename[i] = " " THEN "_"
                      ELSE original_filename[i]]
        bare == SelectSeq(spaced, LAMBDA ch : ch \notin {"(", ")"})
    IN [i \in 1..Len(bare) |-> SafeChar(bare[i])]

\* make_safe_s3_key(original_filename, prefix) at the time ts, with the
\* identifier doc_id drawn for it: the pair <<key, short id>>
MakeSafeS3Key(original_filename, prefix, ts, doc_id) ==
    <<prefix \o <<"/">> \o ts \o <<"_">> \o doc_id \o <<"_">>
        \o SafeName(original_filename),
      ts \o <<"_">> \o doc_id>>

\* the prefix process_single_file passes, a time stamp <date>_<time> and the
\* identifiers, with short fields
UploadPrefix == <<"m", "_", "d">>
UploadTime == <<"1", "_", "2">>
UploadIds == {<<"a">>, <<"b">>}

\* the names files are uploaded under: r.pdf, x r.pdf, y_r.pdf, WHO (g).pdf
UploadNames == {
    <<"r", ".", "p", "d", "f">>,
    <<"x", " ", "r", ".", "p", "d", "f">>,
    <<"y", "_", "r", ".", "p", "d", "f">>,
    <<"W", "H", "O", " ", "(", "g", ")", ".", "p", "d", "f">>
}

\* the documents uploaded: each name under each identifier
Uploads == [name : UploadNames, id : UploadIds]
UploadKey(u) == MakeSafeS3Key(u.name, UploadPrefix, UploadTime, u.id)

\* the records of the index for the uploaded documents
UploadedHitPool ==
    {[s3_key |-> UploadKey(u)[1], doc_id |-> UploadKey(u)[2], score |-> 1,
      text |-> t, page |-> 1] : u \in Uploads, t \in HitTexts}

\* the hits of a request: at most top_k
UploadedHitLists(top_k) == UNION {[1..n -> UploadedHitPool] : n \in 0..top_k}

\* a request against the index of the uploaded documents
UqInit ==
    /\ qy_top_k \in 2..MaxTopK
    /\ qy_hits \in UploadedHitLists(2)
    /\ qy_pc = "ready"
    /\ qy_handler = "none"
    /\ qy_index = "not called"
    /\ qy_gen_calls = 0
    /\ qy_response = NoResponse

UqNext == ChatQueryCompat

UploadedQueryInit ==
    BfIdle /\ CkIdle /\ InIdle /\ UqInit /\ PeIdle /\ EcIdle /\ IxIdle /\
    PfIdle /\ SuIdle /\ IsIdle

SpecUploadedQuery == UploadedQueryInit /\ [][UqNext]_vars

(***************************************************************************)
(* C29: the filename cleaning of chat_query_compat on the keys of          *)
(* make_safe_s3_key                                                        *)
(***************************************************************************)
\* the name the document of a key was uploaded under
UploadedNameOf(s3_key) ==
    (CHOOSE u \in Uploads : UploadKey(u)[1] = s3_key).name

\* C29 (as claimed): for the hits of documents stored under keys of
\* make_safe_s3_key, the cleaned filename is the sanitised name the document
\* was uploaded under, and two hits with text from documents uploaded under
\* different names are both listed as sources.
C29_CleaningRecoversName ==
    (qy_pc = "returned" /\ qy_handler = "chat" /\ qy_index = "ok") =>
        /\ \A h \in 1..Len(qy_hits) :
              CleanFilename(qy_hits[h].s3_key)
                  = SafeName(UploadedNameOf(qy_hits[h].s3_key))
        /\ \A g, h \in 1..Len(qy_hits) :
              (/\ g # h
               /\ Len(qy_hits) = 2
               /\ Strip(qy_hits[g].text) # <<>>
               /\ Strip(qy_hits[h].text) # <<>>
               /\ UploadedNameOf(qy_hits[g].s3_key) # UploadedNameOf(qy_hits[h].s3_key))
              => Len(qy_response.sources) = 2

(***************************************************************************)
(* C30: what a failed ingestion leaves behind                              *)
(***************************************************************************)
\* C30 (as claimed): when process_single_file returns success = false, no
\* object of the document is in the bucket and no chunk of it is in the
\* index.
C30_FailureLeavesNothing ==
    (in_pc = "returned" /\ ~in_result.success) =>
        /\ ~in_s3
        /\ in_index = <<>>

====
